---- MODULE Spec2Model ----
(***************************************************************************)
(* Agent execution engine of cc-chat: the per-session lock and queue and   *)
(* the process registry (ProcessManager), the runner (runClaude) and the   *)
(* adapter loop that drives them (DiscordBot.handleMessage).               *)
(*                                                                         *)
(* Spec     : the closed system.  Messages arrive in threads, each one is  *)
(*            handled by handleMessage; /stop commands and run timeouts    *)
(*            call ProcessManager.stop.                                    *)
(* SpecRun  : one thread, every event of a run.                            *)
(* SpecQueue: the handlers plus other callers of start, enqueue, dequeue   *)
(*            and clearQueue.                                              *)
(* SpecRegistry : any sequence of start, stop, stopAll and remove calls.   *)
(* SpecRunLive, SpecRunFair : SpecRun with the progress of the runner's    *)
(*            steps, without and with subprocesses that exit when signalled*)
(* SpecSessions : handlers of two sessions, stop and clearQueue addressed  *)
(*            to one of them; runs end normally.                           *)
(* SpecStream : one run of runClaude: the subprocess's output is read in   *)
(*            chunks of any size and fed to MessageParser (both versions). *)
(* SpecHandlers : SpecStream with the completion of handlers the parser    *)
(*            did not wait for.                                            *)
(* SpecArgs : the argument list runClaude builds from its options.         *)
(* SpecWait : handlers of one thread and other callers of start and        *)
(*            clearQueue, with fair handler steps and subprocess exits.    *)
(***************************************************************************)
EXTENDS Integers, Sequences, FiniteSets, TLC

\* ---------------------------------------------------------------- bounds
MaxTasks == 3
MaxProcs == 3
MaxStops == 1
MaxRunTasks == 2
MaxOpenTasks == 2
MaxApiCalls == 2
MaxRegCalls == 4
MaxExtReqs == 2
MaxLines == 2

Sessions == {"T1", "T2"}
Tasks == 1..MaxTasks
Procs == 1..MaxProcs
ExtReqs == (MaxTasks + 1)..(MaxTasks + MaxExtReqs)
None == 0
ExitCodes == {0, 1, 2}
ResultSubtypes == {"success", "error_during_execution"}
StderrTexts == {"", "boom"}
ResultBodies ==
  {[total_cost_usd |-> 2, duration_ms |-> 7, result |-> "done"],
   [total_cost_usd |-> 3, duration_ms |-> 5, result |-> "failed"]}
Exited == {"exited", "terminated"}

VARIABLES
  locks,        \* ProcessManager.locks   : session id -> AsyncMutex
  running,      \* ProcessManager.running : session id -> subprocess
  queues,       \* ProcessManager.queues  : session id -> QueuedMessage[]
  store,        \* persisted session: claudeSessionId, useContinue
  pc,           \* position of each handleMessage invocation
  sess,         \* the session (thread) of each invocation
  snap,         \* the session object read by store.get on handler entry
  cur,          \* options of the current runClaude call of an invocation
  curQ,         \* queued entry the drain loop is executing (None: own message)
  rProc,        \* subprocess spawned by the current run
  rSessionId,   \* runClaude local `sessionId`
  rResult,      \* runClaude local `result`
  rOut,         \* RunResult returned by the last runClaude call
  rExit,        \* runClaude local `exitCode`
  rStderr,      \* runClaude local `stderrText`
  procState,    \* "unborn" | "alive" | "killed" (signalled) | "exited" |
                \* "terminated" (exited after the signal)
  procSess,     \* id under which a subprocess was started
  timers,       \* armed timeout timers (named by the run's subprocess)
  resolved,     \* requests whose enqueue promise has been resolved
  nextProc, nArrived, nStops, nApi, nExt,
  \* history
  lastStop,     \* the last stop(id) call made by a caller other than a timer
  arrivals,     \* per session: invocations in order of handler entry
  grants,       \* per session: invocations in order of completed acquire
  holder,       \* per session: invocations between acquire and release
  releases,     \* per invocation: number of releaseLock calls
  exitKind,     \* per invocation: how handleMessage ended
  raised,       \* per invocation: exception seen by the current run
  waited,       \* per invocation: acquire had to wait
  prevInit,     \* per invocation: Init token of the run completed before it
  lastInit,     \* per session: Init token of the last completed run
  enqueueLog, dequeueLog, resolveLog, drainLog, cleared,
  \* one run's output stream (SpecStream)
  parserKind,   \* which MessageParser the run constructs
  handlers,     \* the handlers the caller passed to runClaude
  stdout,       \* the text the subprocess writes to its standard output
  readPos,      \* how much of it reader.read() has delivered
  pending,      \* bytes the TextDecoder holds back
  buffer,       \* MessageParser.buffer
  emitted,      \* handler invocations made by the parser, in order
  warned,       \* lines logged as '[parser] Invalid message shape'
  lineNo,       \* number of lines split off the stream so far
  sessionId,    \* runClaude local `sessionId` of the streamed run
  result,       \* runClaude local `result` of the streamed run
  forwarded,    \* invocations of the caller's onSystemInit and onResult
  parserCalls,  \* the feed and flush calls made so far: number of flushes,
                \* last call, a feed after a flush, a feed that continued
                \* the line the feed before it left incomplete
  phase,        \* position of the streamed run: "idle", "streaming",
                \* "exiting" (awaiting proc.exited), "returned" (from the try
                \* block) or "caught" (returned from the catch block)
  runResult,    \* the RunResult it returned
  unfinished,   \* handler invocations (positions in emitted) that have
                \* started and not finished
  \* one call of runClaude up to its argument list (SpecArgs)
  options,      \* the RunOptions passed to runClaude
  args          \* the argument list it built

vars == <<locks, running, queues, store, pc, sess, snap, cur, curQ, rProc,
          rSessionId, rResult, rOut, rExit, rStderr, procState, procSess,
          timers, resolved, nextProc, nArrived, nStops, lastStop, nApi, nExt,
          arrivals, grants, holder, releases, exitKind, raised,
          waited, prevInit, lastInit,
          enqueueLog, dequeueLog, resolveLog, drainLog, cleared,
          parserKind, handlers, stdout, readPos, pending, buffer, emitted, warned,
          lineNo, sessionId, result, forwarded, parserCalls, phase, runResult,
          unfinished, options, args>>

pmVars == <<locks, running, queues>>
taskVars == <<pc, sess, snap, cur, curQ>>
runVars == <<rProc, rSessionId, rResult, rOut, rExit, rStderr>>
procVars == <<procState, procSess>>
counters == <<nextProc, nArrived, nStops, lastStop, nApi, nExt>>
lockHist == <<arrivals, grants, holder, releases, waited>>
runHist == <<exitKind, raised, prevInit, lastInit>>
queueHist == <<enqueueLog, dequeueLog, resolveLog, drainLog, cleared>>
coreVars == <<locks, running, queues, store, pc, sess, snap, cur, curQ, rProc,
              rSessionId, rResult, rOut, rExit, rStderr, procState, procSess,
              timers, resolved, nextProc, nArrived, nStops, lastStop, nApi,
              nExt, arrivals, grants, holder, releases, exitKind, raised,
              waited, prevInit, lastInit, enqueueLog, dequeueLog, resolveLog,
              drainLog, cleared>>
parseVars == <<parserKind, handlers, stdout, readPos, pending, buffer, emitted, warned,
               lineNo, sessionId, result, forwarded, parserCalls, phase,
               runResult, unfinished>>
argVars == <<options, args>>
streamVars == <<parseVars, argVars>>

\* ------------------------------------------------------------ JS Map<K,V>
EmptyMap == [x \in {} |-> None]
MapGet(m, k, d) == IF k \in DOMAIN m THEN m[k] ELSE d
MapPut(m, k, v) == [x \in (DOMAIN m) \cup {k} |-> IF x = k THEN v ELSE m[x]]
MapDel(m, k) == [x \in (DOMAIN m) \ {k} |-> m[x]]
Range(f) == {f[x] : x \in DOMAIN f}

\* ------------------------------------------------------------ AsyncMutex
NewMutex == [locked |-> FALSE, waitQueue |-> <<>>]

\* (mutant) the resolver is put at the front of waitQueue
acquireFront(m, t) ==
  IF ~m.locked THEN [m EXCEPT !.locked = TRUE]
  ELSE [m EXCEPT !.waitQueue = <<t>> \o @]

\* acquire(): take the lock if free, otherwise park the caller's resolver.
acquire(m, t) ==
  IF ~m.locked THEN [m EXCEPT !.locked = TRUE]
  ELSE [m EXCEPT !.waitQueue = Append(@, t)]

\* (mutant) release wakes the newest waiter
releaseNextLast(m) ==
  IF m.waitQueue # <<>> THEN m.waitQueue[Len(m.waitQueue)] ELSE None

\* the waiter release() wakes: the head of waitQueue (None if empty).
releaseNext(m) == IF m.waitQueue # <<>> THEN Head(m.waitQueue) ELSE None

\* (mutant) release unlocks even when it hands the lock over
releaseUnlocks(m) ==
  IF m.waitQueue # <<>> THEN [locked |-> FALSE, waitQueue |-> Tail(m.waitQueue)]
  ELSE [m EXCEPT !.locked = FALSE]

\* release(): hand over to the head waiter, or unlock when nobody waits.
release(m) ==
  IF m.waitQueue # <<>> THEN [m EXCEPT !.waitQueue = Tail(@)]
  ELSE [m EXCEPT !.locked = FALSE]

isLocked(m) == m.locked

\* -------------------------------------------------------- ProcessManager
\* (mutant) one mutex serves every session
getMutexShared(ls, id) == MapGet(ls, "T1", NewMutex)

getMutex(ls, id) == MapGet(ls, id, NewMutex)

\* Subprocess.kill(): signal a live subprocess (no effect once it exited)
kill(ps, p) == IF ps[p] = "alive" THEN [ps EXCEPT ![p] = "killed"] ELSE ps

\* (mutant) start registers the new handle without killing the old one
startNoKill(run, ps, id, p) == [running |-> MapPut(run, id, p), procs |-> ps]

start(run, ps, id, p) ==
  [running |-> MapPut(run, id, p),
   procs   |-> IF id \in DOMAIN run THEN kill(ps, run[id]) ELSE ps]

\* (mutant) stop kills the process and leaves its entry
stopKeepsEntry(run, ps, id) ==
  IF id \notin DOMAIN run
  THEN [running |-> run, procs |-> ps, ret |-> FALSE]
  ELSE [running |-> run, procs |-> kill(ps, run[id]), ret |-> TRUE]

\* (mutant) stop reports true when it found nothing
stopAlwaysTrue(run, ps, id) ==
  IF id \notin DOMAIN run
  THEN [running |-> run, procs |-> ps, ret |-> TRUE]
  ELSE [running |-> MapDel(run, id), procs |-> kill(ps, run[id]), ret |-> TRUE]

stop(run, ps, id) ==
  IF id \notin DOMAIN run
  THEN [running |-> run, procs |-> ps, ret |-> FALSE]
  ELSE [running |-> MapDel(run, id), procs |-> kill(ps, run[id]), ret |-> TRUE]

RECURSIVE stopEach(_, _, _)
stopEach(run, ps, ids) ==
  IF ids = {} THEN [running |-> run, procs |-> ps]
  ELSE LET id == CHOOSE x \in ids : TRUE
           r  == stop(run, ps, id)
       IN stopEach(r.running, r.procs, ids \ {id})

stopAll(run, ps) == stopEach(run, ps, DOMAIN run)

isRunning(run, id) == id \in DOMAIN run

remove(run, id) == MapDel(run, id)

getRunningCount(run) == Cardinality(DOMAIN run)

QueuedMessage(content, res) == [content |-> content, resolve |-> res]
NoEntry == QueuedMessage(None, None)

\* (mutant) enqueue puts the entry at the front
enqueueFront(qs, id, e) == MapPut(qs, id, <<e>> \o MapGet(qs, id, <<>>))

enqueue(qs, id, e) == MapPut(qs, id, Append(MapGet(qs, id, <<>>), e))

dequeueEmpty(qs, id) == id \notin DOMAIN qs \/ Len(qs[id]) = 0
dequeueItem(qs, id) == IF dequeueEmpty(qs, id) THEN NoEntry ELSE Head(qs[id])
dequeue(qs, id) == IF dequeueEmpty(qs, id) THEN qs ELSE MapPut(qs, id, Tail(qs[id]))

getQueueLength(qs, id) == IF id \in DOMAIN qs THEN Len(qs[id]) ELSE 0

clearQueueResolved(qs, id) ==
  IF id \in DOMAIN qs THEN {qs[id][i].resolve : i \in 1..Len(qs[id])} ELSE {}
\* (mutant) clearQueue drops the queues of every id
clearQueueEverything(qs, id) == IF id \in DOMAIN qs THEN EmptyMap ELSE qs

clearQueue(qs, id) == IF id \in DOMAIN qs THEN MapDel(qs, id) ELSE qs

\* ------------------------------------------------------------------ Init
NoSession == [claudeSessionId |-> None, useContinue |-> FALSE]
NoOptions == [prompt |-> None, resume |-> None, continue |-> FALSE]
NoMessage == [subtype |-> "none", is_error |-> FALSE, total_cost_usd |-> None,
              duration_ms |-> None, result |-> ""]
NoResult == [success |-> FALSE, sessionId |-> None, costUsd |-> None,
             durationMs |-> None, error |-> "", set |-> FALSE]
\* a stop(id) call: its argument, the handle it found, its return value and
\* the requests pending for id when it was made
\* an option that was not given (JavaScript's undefined)
Undefined == "<undefined>"
NoRunOptions == [prompt |-> "", resume |-> Undefined, continue |-> FALSE,
                 model |-> Undefined]
NoStop == [seq |-> 0, id |-> "", proc |-> None, ret |-> FALSE, pending |-> <<>>]

Init ==
  /\ locks = EmptyMap
  /\ running = EmptyMap
  /\ queues = EmptyMap
  /\ \E c \in BOOLEAN :
       store = [s \in Sessions |-> [claudeSessionId |-> None, useContinue |-> c]]
  /\ pc = [t \in Tasks |-> "idle"]
  /\ sess = [t \in Tasks |-> "T1"]
  /\ snap = [t \in Tasks |-> NoSession]
  /\ cur = [t \in Tasks |-> NoOptions]
  /\ curQ = [t \in Tasks |-> NoEntry]
  /\ rProc = [t \in Tasks |-> None]
  /\ rSessionId = [t \in Tasks |-> None]
  /\ rResult = [t \in Tasks |-> NoMessage]
  /\ rOut = [t \in Tasks |-> NoResult]
  /\ procState = [p \in Procs |-> "unborn"]
  /\ rExit = [t \in Tasks |-> 0]
  /\ rStderr = [t \in Tasks |-> ""]
  /\ procSess = [p \in Procs |-> "T1"]
  /\ timers = {}
  /\ resolved = {}
  /\ nextProc = 1
  /\ nArrived = 0
  /\ nStops = 0
  /\ lastStop = NoStop
  /\ nApi = 0
  /\ nExt = 0
  /\ arrivals = [s \in Sessions |-> <<>>]
  /\ grants = [s \in Sessions |-> <<>>]
  /\ holder = [s \in Sessions |-> {}]
  /\ releases = [t \in Tasks |-> 0]
  /\ exitKind = [t \in Tasks |-> "none"]
  /\ raised = [t \in Tasks |-> "none"]
  /\ waited = [t \in Tasks |-> FALSE]
  /\ prevInit = [t \in Tasks |-> None]
  /\ lastInit = [s \in Sessions |-> None]
  /\ enqueueLog = [s \in Sessions |-> <<>>]
  /\ dequeueLog = [s \in Sessions |-> <<>>]
  /\ resolveLog = [s \in Sessions |-> <<>>]
  /\ drainLog = [s \in Sessions |-> <<>>]
  /\ cleared = {}
  /\ parserKind = "handlers"
  /\ handlers = {}
  /\ stdout = <<>>
  /\ readPos = 0
  /\ pending = <<>>
  /\ buffer = <<>>
  /\ emitted = <<>>
  /\ warned = <<>>
  /\ lineNo = 0
  /\ sessionId = None
  /\ result = NoMessage
  /\ forwarded = <<>>
  /\ parserCalls = [flush |-> 0, last |-> "none", late |-> FALSE, cut |-> FALSE]
  /\ phase = "idle"
  /\ runResult = NoResult
  /\ unfinished = {}
  /\ options = NoRunOptions
  /\ args = <<>>


\* ------------------------------------------------- DiscordBot.handleMessage
parked(m, t) == \E i \in 1..Len(m.waitQueue) : m.waitQueue[i] = t
InRun == {"streaming", "exiting", "stderr"}
Holding == {"acquired", "replying", "queued", "thinking", "streaming",
            "exiting", "stderr", "returned", "drain"}
RunsInProgress(s) == {t \in Tasks : sess[t] = s /\ pc[t] \in InRun}

\* handler entry up to `await processManager.acquireLock(session.id)`
Arrive(t, s) ==
  /\ t \in Tasks /\ t = nArrived + 1 /\ pc[t] = "idle"
  /\ LET m  == getMutex(locks, s)
         m2 == acquire(m, t)
         w  == parked(m2, t)
     IN /\ locks' = MapPut(locks, s, m2)
        /\ pc' = [pc EXCEPT ![t] = IF w THEN "waiting" ELSE "acquired"]
        /\ waited' = [waited EXCEPT ![t] = w]
        /\ grants' = IF w THEN grants ELSE [grants EXCEPT ![s] = Append(@, t)]
        /\ holder' = IF w THEN holder ELSE [holder EXCEPT ![s] = @ \cup {t}]
  /\ sess' = [sess EXCEPT ![t] = s]
  /\ snap' = [snap EXCEPT ![t] = store[s]]
  /\ arrivals' = [arrivals EXCEPT ![s] = Append(@, t)]
  /\ nArrived' = nArrived + 1
  /\ UNCHANGED <<running, queues, store, cur, curQ, runVars, procVars, timers,
                 resolved, nextProc, nStops, lastStop, nApi, nExt, releases, runHist,
                 queueHist>>
  /\ UNCHANGED streamVars

\* the `finally { processManager.releaseLock(session.id) }` of handleMessage:
\* the handler ends, the head waiter (if any) continues after its acquire.
Exit(t, kind) ==
  LET s == sess[t]
      m == getMutex(locks, s)
      n == releaseNext(m)
  IN /\ locks' = MapPut(locks, s, release(m))
     /\ pc' = [x \in Tasks |-> IF x = t THEN "done"
                               ELSE IF x = n THEN "acquired" ELSE pc[x]]
     /\ grants' = IF n = None THEN grants ELSE [grants EXCEPT ![s] = Append(@, n)]
     /\ holder' = [holder EXCEPT ![s] = (@ \ {t}) \cup (IF n = None THEN {} ELSE {n})]
     /\ releases' = [releases EXCEPT ![t] = @ + 1]
     /\ exitKind' = [exitKind EXCEPT ![t] = kind]
     /\ snap' = [snap EXCEPT ![t] = NoSession]
     /\ waited' = [waited EXCEPT ![t] = FALSE]
     /\ curQ' = [curQ EXCEPT ![t] = NoEntry]
     /\ cur' = [cur EXCEPT ![t] = NoOptions]

\* the check made under the lock: queue the message or run it
Check(t) ==
  /\ pc[t] = "acquired"
  /\ IF isRunning(running, sess[t])
     THEN /\ pc' = [pc EXCEPT ![t] = "replying"]
          /\ UNCHANGED <<cur, curQ>>
     ELSE /\ pc' = [pc EXCEPT ![t] = "thinking"]
          /\ cur' = [cur EXCEPT ![t] = [prompt |-> t,
                                        resume |-> snap[t].claudeSessionId,
                                        continue |-> snap[t].useContinue]]
          /\ curQ' = [curQ EXCEPT ![t] = NoEntry]
  /\ UNCHANGED <<pmVars, store, sess, snap, runVars, procVars, timers, resolved,
                 counters, lockHist, runHist, queueHist>>
  /\ UNCHANGED streamVars

\* (mutant) the error leaves handleMessage without the finally block
SendFailsNoRelease(t) ==
  /\ pc[t] = "thinking"
  /\ pc' = [pc EXCEPT ![t] = "done"]
  /\ exitKind' = [exitKind EXCEPT ![t] = "threw"]
  /\ holder' = [holder EXCEPT ![sess[t]] = @ \ {t}]
  /\ UNCHANGED <<pmVars, store, sess, snap, cur, curQ, runVars, procVars, timers,
                 resolved, counters, arrivals, grants, releases, waited, raised,
                 prevInit, lastInit, queueHist>>
  /\ UNCHANGED streamVars

\* executeClaudeTask: `await channel.send('Thinking...')` rejects; the error
\* leaves executeClaudeTask and handleMessage through the finally block.
SendFails(t) ==
  /\ pc[t] = "thinking"
  /\ Exit(t, "threw")
  /\ UNCHANGED <<running, queues, store, sess, runVars, procVars, timers,
                 resolved, counters, arrivals, raised, prevInit, lastInit,
                 queueHist>>
  /\ UNCHANGED streamVars

\* ------------------------------------------------------------- runClaude
Failure(sid, msg) ==
  [success |-> FALSE, sessionId |-> sid, costUsd |-> None, durationMs |-> None,
   error |-> msg, set |-> TRUE]

\* (mutant) only an error subtype makes the result a failure
DerivedLenient(sid, res) ==
  [success |-> (res.subtype # "error_during_execution"),
   sessionId |-> sid,
   costUsd |-> res.total_cost_usd,
   durationMs |-> res.duration_ms,
   error |-> IF res.is_error THEN res.result ELSE "",
   set |-> TRUE]

\* (mutant) the result text is always reported as the error
DerivedAlwaysError(sid, res) ==
  [success |-> (res.subtype = "success"),
   sessionId |-> sid,
   costUsd |-> res.total_cost_usd,
   durationMs |-> res.duration_ms,
   error |-> res.result,
   set |-> TRUE]

Derived(sid, res) ==
  [success |-> (res.subtype = "success"),
   sessionId |-> sid,
   costUsd |-> res.total_cost_usd,
   durationMs |-> res.duration_ms,
   error |-> IF res.is_error THEN res.result ELSE "",
   set |-> TRUE]

\* (mutant) the captured stderr is not used
ExitMessageGeneric(text, code) == "Process exited with code " \o ToString(code)

ExitMessage(text, code) ==
  IF text # "" THEN text ELSE "Process exited with code " \o ToString(code)

\* (mutant) the catch block returns without remove(id)
RunCatchNoRemove(t, msg) ==
  /\ running' = running
  /\ rOut' = [rOut EXCEPT ![t] = Failure(rSessionId[t], msg)]
  /\ pc' = [pc EXCEPT ![t] = "returned"]
  /\ lastInit' = [lastInit EXCEPT ![sess[t]] = rSessionId[t]]

\* (mutant) the catch block returns a fixed text instead of error.message
RunCatchGeneric(t, msg) ==
  /\ running' = remove(running, sess[t])
  /\ rOut' = [rOut EXCEPT ![t] = Failure(rSessionId[t], "Unknown error")]
  /\ pc' = [pc EXCEPT ![t] = "returned"]
  /\ lastInit' = [lastInit EXCEPT ![sess[t]] = rSessionId[t]]

\* the catch block: remove(id) and return a failure carrying the message
RunCatch(t, msg) ==
  /\ running' = remove(running, sess[t])
  /\ rOut' = [rOut EXCEPT ![t] = Failure(rSessionId[t], msg)]
  /\ pc' = [pc EXCEPT ![t] = "returned"]
  /\ lastInit' = [lastInit EXCEPT ![sess[t]] = rSessionId[t]]

\* spawn() throws inside the try block
SpawnFails(t) ==
  /\ pc[t] = "thinking"
  /\ RunCatch(t, "spawn failed")
  /\ raised' = [raised EXCEPT ![t] = "spawn"]
  /\ prevInit' = [prevInit EXCEPT ![t] = lastInit[sess[t]]]
  /\ UNCHANGED <<locks, queues, store, sess, snap, cur, curQ, rProc, rSessionId,
                 rResult, rExit, rStderr, procVars, timers, resolved, counters, lockHist,
                 exitKind, queueHist>>
  /\ UNCHANGED streamVars

\* spawn, processManager.start(id, proc), setTimeout, first reader.read()
SpawnOk(t) ==
  /\ pc[t] = "thinking"
  /\ nextProc <= MaxProcs
  /\ LET p == nextProc
         s == sess[t]
         r == start(running, [procState EXCEPT ![p] = "alive"], s, p)
     IN /\ running' = r.running
        /\ procState' = r.procs
        /\ procSess' = [procSess EXCEPT ![p] = s]
        /\ timers' = timers \cup {p}
        /\ rProc' = [rProc EXCEPT ![t] = p]
        /\ prevInit' = [prevInit EXCEPT ![t] = lastInit[s]]
  /\ pc' = [pc EXCEPT ![t] = "streaming"]
  /\ nextProc' = nextProc + 1
  /\ UNCHANGED <<locks, queues, store, sess, snap, cur, curQ, rSessionId, rResult,
                 rOut, rExit, rStderr, resolved, nArrived, nStops, lastStop, nApi, nExt, lockHist,
                 exitKind, raised, lastInit, queueHist>>
  /\ UNCHANGED streamVars

\* a system/init line: the wrapper captures session_id, then the caller's
\* onSystemInit updates the store (ok) or raises (processLine reports it)
FeedInit(t, ok) ==
  /\ pc[t] = "streaming"
  /\ rSessionId[t] = None
  /\ rSessionId' = [rSessionId EXCEPT ![t] = rProc[t]]
  /\ store' = IF ok THEN [store EXCEPT ![sess[t]] =
                            [claudeSessionId |-> rProc[t], useContinue |-> FALSE]]
              ELSE store
  /\ raised' = IF ok THEN raised ELSE [raised EXCEPT ![t] = "handler"]
  /\ UNCHANGED <<pmVars, taskVars, rProc, rResult, rOut, rExit, rStderr, procVars, timers,
                 resolved, counters, lockHist, exitKind, prevInit, lastInit,
                 queueHist>>
  /\ UNCHANGED streamVars

\* a result line: the wrapper captures the message, then the caller's onResult
FeedResult(t, sub, isErr, u, ok) ==
  /\ pc[t] = "streaming"
  /\ rResult[t] = NoMessage
  /\ rResult' = [rResult EXCEPT ![t] =
                    [subtype |-> sub, is_error |-> isErr,
                     total_cost_usd |-> u.total_cost_usd,
                     duration_ms |-> u.duration_ms, result |-> u.result]]
  /\ raised' = IF ok THEN raised ELSE [raised EXCEPT ![t] = "handler"]
  /\ UNCHANGED <<pmVars, store, taskVars, rProc, rSessionId, rOut, rExit, rStderr,
                 procVars, timers, resolved, counters, lockHist, exitKind,
                 prevInit, lastInit, queueHist>>
  /\ UNCHANGED streamVars

\* another handler (onToolUse, onAssistant, onToolResult) raises: processLine
\* catches it and calls onError; feed goes on with the next line
HandlerRaises(t) ==
  /\ pc[t] = "streaming"
  /\ raised[t] = "none"
  /\ raised' = [raised EXCEPT ![t] = "handler"]
  /\ UNCHANGED <<pmVars, store, taskVars, runVars, procVars, timers, resolved,
                 counters, lockHist, exitKind, prevInit, lastInit, queueHist>>
  /\ UNCHANGED streamVars

\* reader.read(), feed (onError itself raising) or flush rejects: catch block.
\* clearTimeout is not reached on this path.
StreamThrows(t) ==
  /\ pc[t] = "streaming"
  /\ RunCatch(t, "stream failed")
  /\ raised' = [raised EXCEPT ![t] = "stream"]
  /\ UNCHANGED <<locks, queues, store, sess, snap, cur, curQ, rProc, rSessionId,
                 rResult, rExit, rStderr, procVars, timers, resolved, counters, lockHist,
                 exitKind, prevInit, queueHist>>
  /\ UNCHANGED streamVars

\* the subprocess exits (by itself or after a kill) and closes its stdout
ProcExit(p) ==
  /\ procState[p] \in {"alive", "killed"}
  /\ procState' = [procState EXCEPT ![p] =
                      IF procState[p] = "killed" THEN "terminated" ELSE "exited"]
  /\ UNCHANGED <<pmVars, store, taskVars, runVars, procSess, timers, resolved,
                 counters, lockHist, runHist, queueHist>>
  /\ UNCHANGED streamVars

\* read() reports done: flush, clearTimeout, `await proc.exited`
StreamEnd(t) ==
  /\ pc[t] = "streaming"
  /\ procState[rProc[t]] \in Exited
  /\ timers' = timers \ {rProc[t]}
  /\ pc' = [pc EXCEPT ![t] = "exiting"]
  /\ UNCHANGED <<pmVars, store, sess, snap, cur, curQ, runVars, procVars,
                 resolved, counters, lockHist, runHist, queueHist>>
  /\ UNCHANGED streamVars

\* (mutant) a non-zero exit code alone selects the stderr branch
RunExitCodeFirst(t, c) ==
  /\ pc[t] = "exiting"
  /\ running' = remove(running, sess[t])
  /\ IF c # 0
     THEN /\ pc' = [pc EXCEPT ![t] = "stderr"]
          /\ UNCHANGED <<rOut, lastInit>>
     ELSE /\ pc' = [pc EXCEPT ![t] = "returned"]
          /\ rOut' = [rOut EXCEPT ![t] = Derived(rSessionId[t], rResult[t])]
          /\ lastInit' = [lastInit EXCEPT ![sess[t]] = rSessionId[t]]
  /\ rExit' = [rExit EXCEPT ![t] = c]
  /\ UNCHANGED <<locks, queues, store, sess, snap, cur, curQ, rProc, rSessionId,
                 rResult, rStderr, procVars, timers, resolved, counters,
                 lockHist, exitKind, raised, prevInit, queueHist>>
  /\ UNCHANGED streamVars

\* (mutant) the run returns without remove(id)
RunExitKeepsEntry(t, c) ==
  /\ pc[t] = "exiting"
  /\ running' = running
  /\ IF c # 0 /\ rResult[t] = NoMessage
     THEN /\ pc' = [pc EXCEPT ![t] = "stderr"]
          /\ UNCHANGED <<rOut, lastInit>>
     ELSE /\ pc' = [pc EXCEPT ![t] = "returned"]
          /\ rOut' = [rOut EXCEPT ![t] = Derived(rSessionId[t], rResult[t])]
          /\ lastInit' = [lastInit EXCEPT ![sess[t]] = rSessionId[t]]
  /\ rExit' = [rExit EXCEPT ![t] = c]
  /\ UNCHANGED <<locks, queues, store, sess, snap, cur, curQ, rProc, rSessionId,
                 rResult, rStderr, procVars, timers, resolved, counters,
                 lockHist, exitKind, raised, prevInit, queueHist>>
  /\ UNCHANGED streamVars

\* exit code c known: remove(id), then derive the result (or go read stderr)
RunExit(t, c) ==
  /\ pc[t] = "exiting"
  /\ running' = remove(running, sess[t])
  /\ IF c # 0 /\ rResult[t] = NoMessage
     THEN /\ pc' = [pc EXCEPT ![t] = "stderr"]
          /\ UNCHANGED <<rOut, lastInit>>
     ELSE /\ pc' = [pc EXCEPT ![t] = "returned"]
          /\ rOut' = [rOut EXCEPT ![t] = Derived(rSessionId[t], rResult[t])]
          /\ lastInit' = [lastInit EXCEPT ![sess[t]] = rSessionId[t]]
  /\ rExit' = [rExit EXCEPT ![t] = c]
  /\ UNCHANGED <<locks, queues, store, sess, snap, cur, curQ, rProc, rSessionId,
                 rResult, rStderr, procVars, timers, resolved, counters,
                 lockHist, exitKind, raised, prevInit, queueHist>>
  /\ UNCHANGED streamVars

\* non-zero exit without a result: stderr is read, the failure is returned
ReadStderr(t, text) ==
  /\ pc[t] = "stderr"
  /\ pc' = [pc EXCEPT ![t] = "returned"]
  /\ rStderr' = [rStderr EXCEPT ![t] = text]
  /\ rOut' = [rOut EXCEPT ![t] = Failure(rSessionId[t], ExitMessage(text, rExit[t]))]
  /\ lastInit' = [lastInit EXCEPT ![sess[t]] = rSessionId[t]]
  /\ UNCHANGED <<pmVars, store, sess, snap, cur, curQ, rProc, rSessionId, rResult,
                 rExit, procVars, timers, resolved, counters, lockHist, exitKind,
                 raised, prevInit, queueHist>>
  /\ UNCHANGED streamVars

\* executeClaudeTask after runClaude returned: report a failure, mark idle;
\* the locals of the run are gone
ExecFinish(t) ==
  /\ pc[t] = "returned"
  /\ pc' = [pc EXCEPT ![t] = "drain"]
  /\ rProc' = [rProc EXCEPT ![t] = None]
  /\ rSessionId' = [rSessionId EXCEPT ![t] = None]
  /\ rResult' = [rResult EXCEPT ![t] = NoMessage]
  /\ rOut' = [rOut EXCEPT ![t] = NoResult]
  /\ rExit' = [rExit EXCEPT ![t] = 0]
  /\ rStderr' = [rStderr EXCEPT ![t] = ""]
  /\ raised' = [raised EXCEPT ![t] = "none"]
  /\ prevInit' = [prevInit EXCEPT ![t] = None]
  /\ UNCHANGED <<pmVars, store, sess, snap, cur, curQ, procVars, timers, resolved,
                 counters, lockHist, exitKind, lastInit, queueHist>>
  /\ UNCHANGED streamVars

ResolveCur(t) == IF curQ[t] = NoEntry THEN {} ELSE {curQ[t].resolve}
LogResolve(t) ==
  IF curQ[t] = NoEntry THEN resolveLog
  ELSE [resolveLog EXCEPT ![sess[t]] = Append(@, curQ[t].resolve)]

\* drain loop: (resolve the entry just run,) dequeue finds nothing, release
DrainDone(t) ==
  /\ pc[t] = "drain"
  /\ dequeueItem(queues, sess[t]) = NoEntry
  /\ resolved' = resolved \cup ResolveCur(t)
  /\ resolveLog' = LogResolve(t)
  /\ Exit(t, "returned")
  /\ UNCHANGED <<running, queues, store, sess, runVars, procVars, timers,
                 counters, arrivals, raised, prevInit, lastInit, enqueueLog,
                 dequeueLog, drainLog, cleared>>
  /\ UNCHANGED streamVars

\* ---------------------------------------------------- /stop and the timeout
Stop(s) ==
  LET r == stop(running, procState, s)
  IN /\ running' = r.running
     /\ procState' = r.procs

\* the record of a stop(id) call made in the current state
StopCall(s) ==
  [seq |-> lastStop.seq + 1, id |-> s, proc |-> MapGet(running, s, None),
   ret |-> stop(running, procState, s).ret,
   pending |-> IF s \in DOMAIN queues
               THEN [i \in 1..Len(queues[s]) |-> queues[s][i].content] ELSE <<>>]

\* (mutant) /stop also clears the queue of the session
StopCommandClears(s) ==
  /\ nStops < MaxStops
  /\ nStops' = nStops + 1
  /\ Stop(s)
  /\ lastStop' = StopCall(s)
  /\ queues' = clearQueue(queues, s)
  /\ resolved' = resolved \cup clearQueueResolved(queues, s)
  /\ cleared' = cleared \cup clearQueueResolved(queues, s)
  /\ UNCHANGED <<locks, store, taskVars, runVars, procSess, timers,
                 nextProc, nArrived, nApi, nExt, lockHist, runHist,
                 enqueueLog, dequeueLog, resolveLog, drainLog>>
  /\ UNCHANGED streamVars

\* handleStopCommand: processManager.stop(session.id)
StopCommand(s) ==
  /\ nStops < MaxStops
  /\ nStops' = nStops + 1
  /\ Stop(s)
  /\ lastStop' = StopCall(s)
  /\ UNCHANGED <<locks, queues, store, taskVars, runVars, procSess, timers,
                 resolved, nextProc, nArrived, nApi, nExt, lockHist, runHist,
                 queueHist>>
  /\ UNCHANGED streamVars

\* (mutant) the timer expires without calling stop
TimerFiresIdle(p) ==
  /\ p \in timers
  /\ timers' = timers \ {p}
  /\ UNCHANGED <<pmVars, store, taskVars, runVars, procVars, resolved,
                 counters, lockHist, runHist, queueHist>>
  /\ UNCHANGED streamVars

\* the setTimeout callback of a run: processManager.stop(id)
TimerFires(p) ==
  /\ p \in timers
  /\ timers' = timers \ {p}
  /\ Stop(procSess[p])
  /\ UNCHANGED <<locks, queues, store, taskVars, runVars, procSess, resolved,
                 counters, lockHist, runHist, queueHist>>
  /\ UNCHANGED streamVars

\* ------------------------------------------- the enqueue branch, the drain
\* `await message.reply('Queued ...')` rejects: out through the finally block
ReplyFails(t) ==
  /\ pc[t] = "replying"
  /\ Exit(t, "threw")
  /\ UNCHANGED <<running, queues, store, sess, runVars, procVars, timers,
                 resolved, counters, arrivals, raised, prevInit, lastInit,
                 queueHist>>
  /\ UNCHANGED streamVars

\* the reply is sent: enqueue(session.id, content) and await its promise
ReplyQueued(t) ==
  /\ pc[t] = "replying"
  /\ queues' = enqueue(queues, sess[t], QueuedMessage(t, t))
  /\ enqueueLog' = [enqueueLog EXCEPT ![sess[t]] = Append(@, t)]
  /\ pc' = [pc EXCEPT ![t] = "queued"]
  /\ UNCHANGED <<locks, running, store, sess, snap, cur, curQ, runVars, procVars,
                 timers, resolved, counters, lockHist, runHist, dequeueLog,
                 resolveLog, drainLog, cleared>>
  /\ UNCHANGED streamVars

\* the promise of enqueue is resolved: `return`, then the finally block
QueuedReturn(t) ==
  /\ pc[t] = "queued"
  /\ t \in resolved
  /\ Exit(t, "queued")
  /\ UNCHANGED <<running, queues, store, sess, runVars, procVars, timers,
                 resolved, counters, arrivals, raised, prevInit, lastInit,
                 queueHist>>
  /\ UNCHANGED streamVars

\* (mutant) the drain loop resolves an entry when it dequeues it
DrainNextEager(t) ==
  /\ pc[t] = "drain"
  /\ dequeueItem(queues, sess[t]) # NoEntry
  /\ LET s == sess[t]
         q == dequeueItem(queues, s)
     IN /\ queues' = dequeue(queues, s)
        /\ dequeueLog' = [dequeueLog EXCEPT ![s] = Append(@, q.content)]
        /\ drainLog' = [drainLog EXCEPT ![s] = Append(@, q.content)]
        /\ curQ' = [curQ EXCEPT ![t] = q]
        /\ cur' = [cur EXCEPT ![t] = [prompt |-> q.content,
                                      resume |-> store[s].claudeSessionId,
                                      continue |-> store[s].useContinue]]
  /\ resolved' = resolved \cup ResolveCur(t) \cup {dequeueItem(queues, sess[t]).resolve}
  /\ resolveLog' = LogResolve(t)
  /\ pc' = [pc EXCEPT ![t] = "thinking"]
  /\ UNCHANGED <<locks, running, store, sess, snap, runVars, procVars, timers,
                 counters, lockHist, runHist, enqueueLog, cleared>>
  /\ UNCHANGED streamVars

\* drain loop: (resolve the entry just run,) dequeue the next entry, re-read
\* the session from the store and run the entry
DrainNext(t) ==
  /\ pc[t] = "drain"
  /\ dequeueItem(queues, sess[t]) # NoEntry
  /\ LET s == sess[t]
         q == dequeueItem(queues, s)
     IN /\ queues' = dequeue(queues, s)
        /\ dequeueLog' = [dequeueLog EXCEPT ![s] = Append(@, q.content)]
        /\ drainLog' = [drainLog EXCEPT ![s] = Append(@, q.content)]
        /\ curQ' = [curQ EXCEPT ![t] = q]
        /\ cur' = [cur EXCEPT ![t] = [prompt |-> q.content,
                                      resume |-> store[s].claudeSessionId,
                                      continue |-> store[s].useContinue]]
  /\ resolved' = resolved \cup ResolveCur(t)
  /\ resolveLog' = LogResolve(t)
  /\ pc' = [pc EXCEPT ![t] = "thinking"]
  /\ UNCHANGED <<locks, running, store, sess, snap, runVars, procVars, timers,
                 counters, lockHist, runHist, enqueueLog, cleared>>
  /\ UNCHANGED streamVars

\* ------------------------------- other callers of the ProcessManager methods
StartCall(s, budget) ==
  /\ nApi < budget /\ nextProc <= MaxProcs
  /\ LET p == nextProc
         r == start(running, [procState EXCEPT ![p] = "alive"], s, p)
     IN /\ running' = r.running
        /\ procState' = r.procs
        /\ procSess' = [procSess EXCEPT ![p] = s]
  /\ nextProc' = nextProc + 1
  /\ nApi' = nApi + 1
  /\ UNCHANGED <<locks, queues, store, taskVars, runVars, timers, resolved,
                 nArrived, nStops, lastStop, nExt, lockHist, runHist, queueHist>>
  /\ UNCHANGED streamVars

ApiStart(s) == StartCall(s, MaxApiCalls)

RegStart(s) == StartCall(s, MaxRegCalls)

RegStop(s) ==
  /\ nApi < MaxRegCalls
  /\ Stop(s)
  /\ lastStop' = StopCall(s)
  /\ nApi' = nApi + 1
  /\ UNCHANGED <<locks, queues, store, taskVars, runVars, procSess, timers,
                 resolved, nextProc, nArrived, nStops, nExt, lockHist, runHist,
                 queueHist>>
  /\ UNCHANGED streamVars

\* DiscordBot.stop(): processManager.stopAll()
RegStopAll ==
  /\ nApi < MaxRegCalls
  /\ LET r == stopAll(running, procState)
     IN /\ running' = r.running
        /\ procState' = r.procs
  /\ nApi' = nApi + 1
  /\ UNCHANGED <<locks, queues, store, taskVars, runVars, procSess, timers,
                 resolved, nextProc, nArrived, nStops, lastStop, nExt, lockHist, runHist,
                 queueHist>>
  /\ UNCHANGED streamVars

RegRemove(s) ==
  /\ nApi < MaxRegCalls
  /\ running' = remove(running, s)
  /\ nApi' = nApi + 1
  /\ UNCHANGED <<locks, queues, store, taskVars, runVars, procVars, timers,
                 resolved, nextProc, nArrived, nStops, lastStop, nExt, lockHist, runHist,
                 queueHist>>
  /\ UNCHANGED streamVars

ApiEnqueue(s) ==
  /\ nExt < MaxExtReqs
  /\ LET r == MaxTasks + nExt + 1
     IN /\ queues' = enqueue(queues, s, QueuedMessage(r, r))
        /\ enqueueLog' = [enqueueLog EXCEPT ![s] = Append(@, r)]
  /\ nExt' = nExt + 1
  /\ UNCHANGED <<locks, running, store, taskVars, runVars, procVars, timers,
                 resolved, nextProc, nArrived, nStops, lastStop, nApi, lockHist, runHist,
                 dequeueLog, resolveLog, drainLog, cleared>>
  /\ UNCHANGED streamVars

ApiDequeue(s) ==
  /\ nApi < MaxApiCalls
  /\ queues' = dequeue(queues, s)
  /\ dequeueLog' = IF dequeueItem(queues, s) = NoEntry THEN dequeueLog
                   ELSE [dequeueLog EXCEPT ![s] = Append(@, dequeueItem(queues, s).content)]
  /\ nApi' = nApi + 1
  /\ UNCHANGED <<locks, running, store, taskVars, runVars, procVars, timers,
                 resolved, nextProc, nArrived, nStops, lastStop, nExt, lockHist, runHist,
                 enqueueLog, resolveLog, drainLog, cleared>>
  /\ UNCHANGED streamVars

ApiClearQueue(s) ==
  /\ nApi < MaxApiCalls
  /\ queues' = clearQueue(queues, s)
  /\ resolved' = resolved \cup clearQueueResolved(queues, s)
  /\ cleared' = cleared \cup clearQueueResolved(queues, s)
  /\ nApi' = nApi + 1
  /\ UNCHANGED <<locks, running, store, taskVars, runVars, procVars, timers,
                 nextProc, nArrived, nStops, lastStop, nExt, lockHist, runHist, enqueueLog,
                 dequeueLog, resolveLog, drainLog>>
  /\ UNCHANGED streamVars

\* ------------------------------------------------------------ MessageParser
\* Text is a sequence of characters.  A JSON document is written as an
\* opening brace, one letter naming its body, and a closing brace.
NL == "\n"
SP == " "
Brace(k) == <<"{", k, "}">>

\* content items of an assistant message
ToolUse(n) == [type |-> "tool_use", id |-> n, name |-> n]
Text(t) == [type |-> "text", text |-> t]
Block(c) == [type |-> "message", id |-> "m", role |-> "assistant", content |-> c]

\* the JSON documents a line may hold, by the letter of their body
Documents ==
  [i |-> [type |-> "system", subtype |-> "init", session_id |-> 1,
          tools |-> <<>>, mcp_servers |-> <<>>],
   j |-> [type |-> "system", subtype |-> "init", session_id |-> 2,
          tools |-> <<>>, mcp_servers |-> <<>>],
   a |-> [type |-> "assistant", session_id |-> 1,
          message |-> Block(<<ToolUse("A"), ToolUse("B"), Text(<<"h", "i">>)>>)],
   w |-> [type |-> "assistant", session_id |-> 1,
          message |-> Block(<<Text(<<SP>>), Text(<<>>)>>)],
   m |-> [type |-> "assistant", session_id |-> 1],
   u |-> [type |-> "user", session_id |-> 1, message |-> Block(<<>>)],
   r |-> [type |-> "result", subtype |-> "success", session_id |-> 1,
          is_error |-> FALSE, total_cost_usd |-> 2, duration_ms |-> 7,
          result |-> "done"],
   T |-> [type |-> "tool_use", tool_name |-> "A", tool_input |-> <<>>,
          session_id |-> 1],
   R |-> [type |-> "tool_result", tool_name |-> "A", tool_result |-> "out",
          is_error |-> FALSE, session_id |-> 1],
   z |-> [type |-> "ping"]]

\* String.prototype.trim
RECURSIVE trimStart(_)
trimStart(x) == IF x # <<>> /\ Head(x) = SP THEN trimStart(Tail(x)) ELSE x
RECURSIVE trimEnd(_)
trimEnd(x) ==
  IF x # <<>> /\ x[Len(x)] = SP THEN trimEnd(SubSeq(x, 1, Len(x) - 1)) ELSE x
trim(x) == trimEnd(trimStart(x))

\* String.prototype.split('\n'): one piece more than there are newlines
RECURSIVE split(_)
split(x) ==
  IF \A n \in 1..Len(x) : x[n] # NL THEN <<x>>
  ELSE LET n == CHOOSE k \in 1..Len(x) :
                  x[k] = NL /\ \A h \in 1..(k - 1) : x[h] # NL
       IN <<SubSeq(x, 1, n - 1)>> \o split(SubSeq(x, n + 1, Len(x)))

\* JSON.parse: white space around the document is allowed; anything that is
\* not one document raises SyntaxError
JSONparse(line) ==
  LET x == trim(line)
  IN IF Len(x) = 3 /\ x[1] = "{" /\ x[3] = "}" /\ x[2] \in DOMAIN Documents
     THEN [ok |-> TRUE, value |-> Documents[x[2]]]
     ELSE [ok |-> FALSE, value |-> [type |-> "undefined"]]

\* parseClaudeMessage: the zod union of the message schemas, discriminated by
\* `type`; unknown fields pass
Has(v, fields) == fields \subseteq DOMAIN v
SystemInitMessageSchema(v) ==
  /\ v.type = "system" /\ Has(v, {"subtype", "session_id", "tools", "mcp_servers"})
  /\ v.subtype = "init"
ResultEnum == {"success", "error", "error_max_turns", "interrupted"}
parseClaudeMessage(v) ==
  \/ SystemInitMessageSchema(v)
  \/ v.type \in {"assistant", "user"} /\ Has(v, {"message", "session_id"})
  \/ v.type = "tool_use" /\ Has(v, {"tool_name", "tool_input", "session_id"})
  \/ v.type = "tool_result"
       /\ Has(v, {"tool_name", "tool_result", "is_error", "session_id"})
  \/ v.type = "result" /\ Has(v, {"subtype", "session_id"})
       /\ v.subtype \in ResultEnum

\* a handler invocation: which handler, for which line of the stream, with
\* which argument
Event(h, n, arg) == [handler |-> h, line |-> n, msg |-> arg]
NoOutput == [emitted |-> <<>>, warned |-> <<>>]
Emit(hs, h, n, arg) ==
  [emitted |-> IF h \in hs THEN <<Event(h, n, arg)>> ELSE <<>>, warned |-> <<>>]

\* the `assistant` case of dispatch: every tool_use item in array order, then
\* onAssistant once if some text item is not blank
isToolUse(c) == c.type = "tool_use"
\* (mutant) any text item counts, blank or not
hasTextAny(contents) == \E n \in 1..Len(contents) : contents[n].type = "text"

hasText(contents) ==
  \E n \in 1..Len(contents) :
     contents[n].type = "text" /\ trim(contents[n].text) # <<>>
dispatchAssistant(hs, v, n) ==
  LET contents == v.message.content
      uses == SelectSeq(contents, isToolUse)
  IN [emitted |->
        (IF "onToolUse" \in hs
         THEN [k \in 1..Len(uses) |-> Event("onToolUse", n, uses[k])]
         ELSE <<>>)
        \o (IF hasText(contents) /\ "onAssistant" \in hs
            THEN <<Event("onAssistant", n, v)>> ELSE <<>>),
      warned |-> <<>>]

\* dispatch of the parser that validates with zod and emits events
dispatch(hs, v, n) ==
  IF v.type = "system"
  THEN IF SystemInitMessageSchema(v) THEN Emit(hs, "onSystemInit", n, v)
       ELSE NoOutput
  ELSE IF v.type = "assistant" THEN dispatchAssistant(hs, v, n)
  ELSE IF v.type = "user" THEN Emit(hs, "onToolResult", n, v)
  ELSE IF v.type = "result" THEN Emit(hs, "onResult", n, v)
  ELSE NoOutput

\* dispatch of the parser that calls the handlers on the unvalidated value;
\* reading `content` of a missing `message` raises TypeError
dispatchRaises(v) == v.type = "assistant" /\ ~Has(v, {"message"})
dispatchUnchecked(hs, v, n) ==
  IF v.type = "system"
  THEN IF Has(v, {"subtype"}) /\ v.subtype = "init"
       THEN Emit(hs, "onSystemInit", n, v) ELSE NoOutput
  ELSE IF v.type = "assistant" THEN dispatchAssistant(hs, v, n)
  ELSE IF v.type = "user" THEN Emit(hs, "onToolResult", n, v)
  ELSE IF v.type = "result" THEN Emit(hs, "onResult", n, v)
  ELSE NoOutput

\* the two MessageParser classes: the one that calls the handlers it was
\* given, and the one that validates and emits events
ParserKinds == {"handlers", "emitter"}

\* (mutant) a line that is not JSON is reported to onError
processLineReports(kind, hs, line, n) ==
  LET json == JSONparse(line)
  IN IF ~json.ok THEN Emit(hs, "onError", n, [name |-> "SyntaxError"])
     ELSE IF kind = "emitter"
     THEN IF parseClaudeMessage(json.value) THEN dispatch(hs, json.value, n)
          ELSE [emitted |-> <<>>, warned |-> <<n>>]
     ELSE IF dispatchRaises(json.value)
          THEN Emit(hs, "onError", n, [name |-> "TypeError"])
          ELSE dispatchUnchecked(hs, json.value, n)

\* processLine of line number n, for a parser of the given kind with the
\* handlers hs: what it emits and whether it logs an invalid shape
processLine(kind, hs, line, n) ==
  LET json == JSONparse(line)
  IN IF ~json.ok THEN NoOutput
     ELSE IF kind = "emitter"
     THEN IF parseClaudeMessage(json.value) THEN dispatch(hs, json.value, n)
          ELSE [emitted |-> <<>>, warned |-> <<n>>]
     ELSE IF dispatchRaises(json.value)
          THEN Emit(hs, "onError", n, [name |-> "TypeError"])
          ELSE dispatchUnchecked(hs, json.value, n)

\* (mutant) the lines of one chunk are processed last to first
RECURSIVE processLinesBackwards(_, _, _, _)
processLinesBackwards(kind, hs, lines, n) ==
  IF lines = <<>> THEN NoOutput
  ELSE LET first == IF trim(Head(lines)) # <<>>
                    THEN processLine(kind, hs, Head(lines), n + 1)
                    ELSE NoOutput
           rest == processLinesBackwards(kind, hs, Tail(lines), n + 1)
       IN [emitted |-> rest.emitted \o first.emitted,
           warned |-> rest.warned \o first.warned]

\* the loop of feed over the complete lines; blank lines are skipped
RECURSIVE processLines(_, _, _, _)
processLines(kind, hs, lines, n) ==
  IF lines = <<>> THEN NoOutput
  ELSE LET first == IF trim(Head(lines)) # <<>>
                    THEN processLine(kind, hs, Head(lines), n + 1)
                    ELSE NoOutput
           rest == processLines(kind, hs, Tail(lines), n + 1)
       IN [emitted |-> first.emitted \o rest.emitted,
           warned |-> first.warned \o rest.warned]

\* (mutant) the incomplete line of the previous chunk is not kept
feedForgets(kind, hs, buf, n, chunk) ==
  LET lines == split(chunk)
      whole == SubSeq(lines, 1, Len(lines) - 1)
      out == processLines(kind, hs, whole, n)
  IN [buffer |-> lines[Len(lines)], lineNo |-> n + Len(whole),
      emitted |-> out.emitted, warned |-> out.warned]

\* feed(chunk) on a parser whose buffer is buf and that has split off n lines
feed(kind, hs, buf, n, chunk) ==
  LET lines == split(buf \o chunk)
      whole == SubSeq(lines, 1, Len(lines) - 1)
      out == processLines(kind, hs, whole, n)
  IN [buffer |-> lines[Len(lines)], lineNo |-> n + Len(whole),
      emitted |-> out.emitted, warned |-> out.warned]

\* (mutant) flush leaves the line it processed in the buffer
flushKeeps(kind, hs, buf, n) ==
  IF trim(buf) # <<>>
  THEN LET out == processLine(kind, hs, buf, n + 1)
       IN [buffer |-> buf, lineNo |-> n,
           emitted |-> out.emitted, warned |-> out.warned]
  ELSE [buffer |-> buf, lineNo |-> n, emitted |-> <<>>, warned |-> <<>>]

\* flush()
flush(kind, hs, buf, n) ==
  IF trim(buf) # <<>>
  THEN LET out == processLine(kind, hs, buf, n + 1)
       IN [buffer |-> <<>>, lineNo |-> n,
           emitted |-> out.emitted, warned |-> out.warned]
  ELSE [buffer |-> buf, lineNo |-> n, emitted |-> <<>>, warned |-> <<>>]

\* ------------------------------------------- runClaude: the streaming loop
\* UTF-8: every character is one byte, except the body letter of the `user`
\* document, which stands for a two-byte character
encodeChar(c) == IF c = "u" THEN <<"u1", "u2">> ELSE <<c>>
RECURSIVE encode(_)
encode(x) == IF x = <<>> THEN <<>> ELSE encodeChar(Head(x)) \o encode(Tail(x))

\* TextDecoder.decode(value, { stream: true }): an incomplete character at the
\* end of the chunk is kept for the next call, a malformed one becomes "?"
RECURSIVE decode(_)
decode(b) ==
  IF b = <<>> THEN [text |-> <<>>, pending |-> <<>>]
  ELSE IF b = <<"u1">> THEN [text |-> <<>>, pending |-> b]
  ELSE IF Head(b) = "u1" /\ b[2] = "u2"
       THEN LET d == decode(Tail(Tail(b)))
            IN [text |-> <<"u">> \o d.text, pending |-> d.pending]
  ELSE LET d == decode(Tail(b))
       IN [text |-> <<IF Head(b) \in {"u1", "u2"} THEN "?" ELSE Head(b)>> \o d.text,
           pending |-> d.pending]

\* the lines a subprocess may write, and the texts made of them
LineTexts ==
  {Brace(k) : k \in DOMAIN Documents}
    \cup {<<"x">>, <<SP>>, <<SP, "{", "r", "}", SP>>}
RECURSIVE join(_)
join(ls) ==
  IF ls = <<>> THEN <<>>
  ELSE IF Len(ls) = 1 THEN ls[1]
  ELSE ls[1] \o <<NL>> \o join(Tail(ls))
Texts ==
  {join(ls) \o end :
     ls \in UNION {[1..n -> LineTexts] : n \in 0..MaxLines}, end \in {<<>>, <<NL>>}}

\* the handlers a caller may pass, and the ones the parser is built with:
\* `{ ...handlers, onSystemInit, onResult }`
AllHandlers == {"onSystemInit", "onAssistant", "onToolUse", "onToolResult",
                "onResult", "onError"}
HandlerSets == {{}, AllHandlers}
wrappedHandlers(hs) == hs \cup {"onSystemInit", "onResult"}

\* the wrappers: the last Init's session_id, the last result message, and
\* the calls passed on to the caller's own handlers
ResultFields(v) ==
  [subtype |-> v.subtype, is_error |-> v.is_error,
   total_cost_usd |-> v.total_cost_usd, duration_ms |-> v.duration_ms,
   result |-> v.result]
\* (mutant) only the first Init's session id is kept
RECURSIVE captureSessionIdFirst(_, _)
captureSessionIdFirst(sid, es) ==
  IF es = <<>> THEN sid
  ELSE captureSessionIdFirst(IF Head(es).handler = "onSystemInit" /\ sid = None
                             THEN Head(es).msg.session_id ELSE sid, Tail(es))

RECURSIVE captureSessionId(_, _)
captureSessionId(sid, es) ==
  IF es = <<>> THEN sid
  ELSE captureSessionId(IF Head(es).handler = "onSystemInit"
                        THEN Head(es).msg.session_id ELSE sid, Tail(es))
RECURSIVE captureResult(_, _)
captureResult(res, es) ==
  IF es = <<>> THEN res
  ELSE captureResult(IF Head(es).handler = "onResult"
                     THEN ResultFields(Head(es).msg) ELSE res, Tail(es))
forward(hs, es) ==
  LET passed(e) == e.handler \in {"onSystemInit", "onResult"} /\ e.handler \in hs
  IN SelectSeq(es, passed)

\* The handler version awaits every handler call.  The EventEmitter version
\* calls emit, which runs an async listener up to its first await and drops
\* the promise: the caller's handlers (and the wrappers that await them) are
\* still unfinished when emit returns.
awaited(kind, hs, e) == kind = "handlers" \/ e.handler \notin hs

started(kind, hs, n, es) ==
  {n + k : k \in {x \in 1..Len(es) : ~awaited(kind, hs, es[x])}}

\* what a feed or flush call did, applied to the run's state
Deliver(out) ==
  /\ unfinished' = unfinished \cup started(parserKind, handlers, Len(emitted), out.emitted)
  /\ buffer' = out.buffer
  /\ lineNo' = out.lineNo
  /\ emitted' = emitted \o out.emitted
  /\ warned' = warned \o out.warned
  /\ sessionId' = captureSessionId(sessionId, out.emitted)
  /\ result' = captureResult(result, out.emitted)
  /\ forwarded' = forwarded \o forward(handlers, out.emitted)

\* runClaude is called: the parser is built, the subprocess starts writing
StreamOpen ==
  /\ phase = "idle"
  /\ phase' = "streaming"
  /\ \E kind \in ParserKinds, hs \in HandlerSets, text \in Texts :
       /\ parserKind' = kind
       /\ handlers' = hs
       /\ stdout' = encode(text)
  /\ UNCHANGED <<unfinished, readPos, pending, buffer, emitted, warned, lineNo, sessionId,
                 result, forwarded, parserCalls, runResult>>
  /\ UNCHANGED <<coreVars, argVars>>

\* reader.read() delivers the next k bytes: decode, feed
Read(k) ==
  /\ phase = "streaming"
  /\ readPos + k <= Len(stdout)
  /\ LET d == decode(pending \o SubSeq(stdout, readPos + 1, readPos + k))
         out == feed(parserKind, wrappedHandlers(handlers), buffer, lineNo, d.text)
     IN /\ pending' = d.pending
        /\ Deliver(out)
        /\ parserCalls' = [parserCalls EXCEPT !.last = "feed",
                                              !.late = (@ \/ parserCalls.flush > 0),
                                              !.cut = (@ \/ (buffer # <<>> /\ d.text # <<>>
                                                               /\ Head(d.text) # NL))]
  /\ readPos' = readPos + k
  /\ UNCHANGED <<parserKind, handlers, stdout, phase, runResult>>
  /\ UNCHANGED <<coreVars, argVars>>

\* (mutant) the loop ends without the flush call
ReadDoneNoFlush ==
  /\ phase = "streaming"
  /\ readPos = Len(stdout)
  /\ phase' = "exiting"
  /\ UNCHANGED <<unfinished, parserKind, handlers, stdout, readPos, pending, buffer, emitted,
                 warned, lineNo, sessionId, result, forwarded, parserCalls,
                 runResult>>
  /\ UNCHANGED <<coreVars, argVars>>

\* reader.read() reports done: flush, clearTimeout, `await proc.exited`
ReadDone ==
  /\ phase = "streaming"
  /\ readPos = Len(stdout)
  /\ Deliver(flush(parserKind, wrappedHandlers(handlers), buffer, lineNo))
  /\ parserCalls' = [parserCalls EXCEPT !.last = "flush", !.flush = @ + 1]
  /\ phase' = "exiting"
  /\ UNCHANGED <<parserKind, handlers, stdout, readPos, pending, runResult>>
  /\ UNCHANGED <<coreVars, argVars>>

\* an async handler that was left running finishes
HandlerDone(n) ==
  /\ n \in unfinished
  /\ unfinished' = unfinished \ {n}
  /\ UNCHANGED <<parserKind, handlers, stdout, readPos, pending, buffer, emitted,
                 warned, lineNo, sessionId, result, forwarded, parserCalls,
                 phase, runResult>>
  /\ UNCHANGED <<coreVars, argVars>>

\* reader.read() rejects: the catch block returns the failure
ReadThrows ==
  /\ phase = "streaming"
  /\ phase' = "caught"
  /\ runResult' = Failure(sessionId, "stream failed")
  /\ UNCHANGED <<unfinished, parserKind, handlers, stdout, readPos, pending, buffer, emitted,
                 warned, lineNo, sessionId, result, forwarded, parserCalls>>
  /\ UNCHANGED <<coreVars, argVars>>

\* the subprocess exited with code c, its stderr holding text: the result
StreamExit(c, text) ==
  /\ phase = "exiting"
  /\ phase' = "returned"
  /\ runResult' = IF c # 0 /\ result = NoMessage
                  THEN Failure(sessionId, ExitMessage(text, c))
                  ELSE Derived(sessionId, result)
  /\ UNCHANGED <<unfinished, parserKind, handlers, stdout, readPos, pending, buffer, emitted,
                 warned, lineNo, sessionId, result, forwarded, parserCalls>>
  /\ UNCHANGED <<coreVars, argVars>>

\* ------------------------------------------ runClaude: the argument list
\* `if (x)` on a string option: undefined and the empty string are falsy
Truthy(x) == x # Undefined /\ x # ""

\* (mutant) the resume flag is pushed whenever a token is given
buildArgsBoth(o) ==
  <<"-p", o.prompt, "--output-format", "stream-json", "--verbose",
    "--dangerously-skip-permissions">>
  \o (IF o.continue THEN <<"--continue">> ELSE <<>>)
  \o (IF Truthy(o.resume) THEN <<"--resume", o.resume>> ELSE <<>>)
  \o (IF Truthy(o.model) THEN <<"--model", o.model>> ELSE <<>>)

\* `const args = [...]` and the pushes that follow it
buildArgs(o) ==
  <<"-p", o.prompt, "--output-format", "stream-json", "--verbose",
    "--dangerously-skip-permissions">>
  \o (IF o.continue THEN <<"--continue">>
      ELSE IF Truthy(o.resume) THEN <<"--resume", o.resume>> ELSE <<>>)
  \o (IF Truthy(o.model) THEN <<"--model", o.model>> ELSE <<>>)

Prompts == {"hi", "--continue", "--resume", "--model"}
ResumeTokens == {Undefined, "", "s1", "--continue"}
Models == {Undefined, "", "opus", "sonnet"}

\* runClaude is called with some options and builds its argument list
BuildArgs ==
  /\ phase = "idle"
  /\ \E pr \in Prompts, rs \in ResumeTokens, c \in BOOLEAN, md \in Models :
       LET o == [prompt |-> pr, resume |-> rs, continue |-> c, model |-> md]
       IN /\ options' = o
          /\ args' = buildArgs(o)
  /\ UNCHANGED <<coreVars, parseVars>>

\* the steps of a handler invocation whose run streams to its end
Handler ==
  \/ \E t \in Tasks : Check(t)
  \/ \E t \in Tasks : SendFails(t)
  \/ \E t \in Tasks : SpawnOk(t)
  \/ \E p \in Procs : ProcExit(p)
  \/ \E t \in Tasks : StreamEnd(t)
  \/ \E t \in Tasks, c \in ExitCodes : RunExit(t, c)
  \/ \E t \in Tasks, x \in StderrTexts : ReadStderr(t, x)
  \/ \E t \in Tasks : ExecFinish(t)
  \/ \E t \in Tasks : DrainDone(t)

\* plus the Init event, the exceptions, /stop and the timeout
Core ==
  \/ Handler
  \/ \E t \in Tasks : SpawnFails(t)
  \/ \E t \in Tasks, ok \in BOOLEAN : FeedInit(t, ok)
  \/ \E t \in Tasks : StreamThrows(t)
  \/ \E s \in Sessions : StopCommand(s)
  \/ \E p \in Procs : TimerFires(p)

\* Spec: the messages of one thread; the runs as the lock, the queue, the
\* registry and the session store see them
Next ==
  \/ \E t \in Tasks : Arrive(t, "T1")
  \/ Core

Spec == Init /\ [][Next]_vars

\* SpecRun: the messages of one thread, every event of a run
NextRun ==
  \/ \E t \in 1..MaxRunTasks : Arrive(t, "T1")
  \/ Core
  \/ \E t \in Tasks, sub \in ResultSubtypes, e \in BOOLEAN, u \in ResultBodies,
          ok \in BOOLEAN : FeedResult(t, sub, e, u, ok)
  \/ \E t \in Tasks : HandlerRaises(t)

SpecRun == Init /\ [][NextRun]_vars

\* The awaits of runClaude resume once their promise settles and an armed
\* timer fires.  Nothing makes a subprocess exit.
RunProgress ==
  /\ \A t \in Tasks : WF_vars(StreamEnd(t))
  /\ \A t \in Tasks : WF_vars(\E c \in ExitCodes : RunExit(t, c))
  /\ \A t \in Tasks : WF_vars(\E x \in StderrTexts : ReadStderr(t, x))
  /\ \A p \in Procs : WF_vars(TimerFires(p))

\* A subprocess that was sent the termination signal exits.
SignalObeyed == \A p \in Procs : WF_vars(procState[p] = "killed" /\ ProcExit(p))

\* SpecRunLive: SpecRun with the progress of the runner's own steps
SpecRunLive == SpecRun /\ RunProgress

\* SpecRunFair: SpecRunLive with subprocesses that exit when signalled
SpecRunFair == SpecRun /\ RunProgress /\ SignalObeyed

\* SpecQueue: the handlers of one thread, /stop, and other callers of start,
\* enqueue, dequeue and clearQueue
NextQueue ==
  \/ \E t \in 1..MaxOpenTasks : Arrive(t, "T1")
  \/ Handler
  \/ \E t \in Tasks : ReplyFails(t)
  \/ \E t \in Tasks : ReplyQueued(t)
  \/ \E t \in Tasks : QueuedReturn(t)
  \/ \E t \in Tasks : DrainNext(t)
  \/ ApiStart("T1")
  \/ \E s \in Sessions : StopCommand(s)
  \/ \E s \in Sessions : ApiEnqueue(s)
  \/ ApiDequeue("T1")
  \/ ApiClearQueue("T1")

SpecQueue == Init /\ [][NextQueue]_vars

\* SpecRegistry: any sequence of start, stop, stopAll and remove calls
NextRegistry ==
  \/ \E s \in Sessions : RegStart(s)
  \/ \E s \in Sessions : RegStop(s)
  \/ RegStopAll
  \/ \E s \in Sessions : RegRemove(s)
  \/ \E p \in Procs : ProcExit(p)

SpecRegistry == Init /\ [][NextRegistry]_vars

\* SpecSessions: messages in two threads whose runs end with exit code 0,
\* requests enqueued for either thread, /stop and clearQueue in the first
NextSessions ==
  \/ \E t \in Tasks, s \in Sessions : Arrive(t, s)
  \/ \E t \in Tasks : Check(t)
  \/ \E t \in Tasks : SpawnOk(t)
  \/ \E p \in Procs : ProcExit(p)
  \/ \E t \in Tasks : StreamEnd(t)
  \/ \E t \in Tasks : RunExit(t, 0)
  \/ \E t \in Tasks : ExecFinish(t)
  \/ \E t \in Tasks : DrainDone(t)
  \/ \E t \in Tasks : DrainNext(t)
  \/ StopCommand("T1")
  \/ \E s \in Sessions : ApiEnqueue(s)
  \/ ApiClearQueue("T1")

SpecSessions == Init /\ [][NextSessions]_vars

\* SpecStream: one run of runClaude, its output read in chunks of any size
NextStream ==
  \/ StreamOpen
  \/ \E k \in 1..Len(stdout) : Read(k)
  \/ ReadDone
  \/ ReadThrows
  \/ \E c \in ExitCodes, x \in StderrTexts : StreamExit(c, x)

SpecStream == Init /\ [][NextStream]_vars

\* SpecHandlers: SpecStream with the completion of the handlers that the
\* parser did not wait for
NextHandlers ==
  \/ StreamOpen
  \/ \E k \in 1..Len(stdout) : Read(k)
  \/ ReadDone
  \/ ReadThrows
  \/ \E c \in ExitCodes, x \in StderrTexts : StreamExit(c, x)
  \/ \E n \in 1..Len(emitted) : HandlerDone(n)

SpecHandlers == Init /\ [][NextHandlers]_vars

\* SpecWait: the handlers of one thread whose runs end with exit code 0,
\* with start and clearQueue called for the thread by other callers.  The
\* steps of a handler are taken when they can be and every subprocess exits;
\* nothing is assumed of the arrivals and of the other callers.
NextWait ==
  \/ \E t \in 1..MaxOpenTasks : Arrive(t, "T1")
  \/ \E t \in Tasks : Check(t)
  \/ \E t \in Tasks : SpawnOk(t)
  \/ \E p \in Procs : ProcExit(p)
  \/ \E t \in Tasks : StreamEnd(t)
  \/ \E t \in Tasks : RunExit(t, 0)
  \/ \E t \in Tasks : ExecFinish(t)
  \/ \E t \in Tasks : DrainDone(t)
  \/ \E t \in Tasks : ReplyQueued(t)
  \/ \E t \in Tasks : QueuedReturn(t)
  \/ ApiStart("T1")
  \/ ApiClearQueue("T1")

HandlerProgress ==
  \A t \in Tasks :
    /\ WF_vars(Check(t)) /\ WF_vars(SpawnOk(t)) /\ WF_vars(StreamEnd(t))
    /\ WF_vars(RunExit(t, 0)) /\ WF_vars(ExecFinish(t)) /\ WF_vars(DrainDone(t))
    /\ WF_vars(ReplyQueued(t)) /\ WF_vars(QueuedReturn(t))

SubprocessExits == \A p \in Procs : WF_vars(ProcExit(p))

SpecWait == Init /\ [][NextWait]_vars /\ HandlerProgress /\ SubprocessExits

\* SpecArgs: calls of runClaude with any options, up to the argument list
NextArgs == BuildArgs

SpecArgs == Init /\ [][NextArgs]_vars

\* ================================================================ claims
Arrived(t) == pc[t] # "idle"
Before(t1, t2) ==
  \E i, j \in 1..Len(arrivals[sess[t1]]) :
    i < j /\ arrivals[sess[t1]][i] = t1 /\ arrivals[sess[t1]][j] = t2
SameSession(t1, t2) == Arrived(t1) /\ Arrived(t2) /\ sess[t1] = sess[t2]
QueueContents(s) ==
  IF s \in DOMAIN queues THEN [i \in 1..Len(queues[s]) |-> queues[s][i].content]
  ELSE <<>>
SeqRange(q) == {q[i] : i \in 1..Len(q)}
NoDup(q) == \A i, j \in 1..Len(q) : q[i] = q[j] => i = j
Keep(q, S) == LET in(x) == x \in S IN SelectSeq(q, in)
IsPrefix(a, b) == Len(a) <= Len(b) /\ \A i \in 1..Len(a) : a[i] = b[i]

\* C1: for every session at most one run (runClaude with its subprocess) is
\* in progress at any time, and no run is started (start(id, .)) while a
\* process is still registered for its session.
C1_OneRunPerSession ==
  /\ [](\A s \in Sessions : Cardinality(RunsInProgress(s)) <= 1)
  /\ [][nextProc' # nextProc => ~isRunning(running, procSess'[nextProc])]_vars

C1_Witness ==
  \E t1, t2 \in Tasks :
    /\ SameSession(t1, t2)
    /\ pc[t1] \in InRun /\ isRunning(running, sess[t1])
    /\ pc[t2] = "waiting"

\* C2 (as claimed): a request that arrives for a session while a run of that
\* session is in progress is appended to the session's queue, whose length
\* becomes at least 1.
C2_QueuedWhileRunning ==
  \A t1, t2 \in Tasks :
    (SameSession(t1, t2) /\ pc[t1] \in InRun /\ Before(t1, t2))
      => /\ getQueueLength(queues, sess[t2]) >= 1
         /\ t2 \in SeqRange(QueueContents(sess[t2]))

\* C3 (as claimed): a request that waited while an earlier run of its session
\* was in flight is run, once that run has completed having emitted Init with
\* id X that the store holds, with resume token X and not in continue mode.
C3_WaiterUsesLatestToken ==
  \A t \in Tasks :
    (/\ pc[t] \in InRun /\ waited[t] /\ prevInit[t] # None
     /\ rSessionId[t] = None /\ store[sess[t]].claudeSessionId = prevInit[t])
      => (cur[t].resume = prevInit[t] /\ ~cur[t].continue)

\* C4: dequeue returns the pending requests of a session in the order they
\* were enqueued, none twice and none skipped, and the drain loop runs them and
\* resolves their completion handles in that same order.
C4_QueueFifo ==
  \A s \in Sessions :
    /\ NoDup(dequeueLog[s])
    /\ dequeueLog[s] =
         Keep(enqueueLog[s], SeqRange(enqueueLog[s]) \ (cleared \cup SeqRange(QueueContents(s))))
    /\ QueueContents(s) =
         Keep(enqueueLog[s], SeqRange(enqueueLog[s]) \ (cleared \cup SeqRange(dequeueLog[s])))
    /\ drainLog[s] = Keep(dequeueLog[s], SeqRange(drainLog[s]))
    /\ resolveLog[s] = Keep(drainLog[s], SeqRange(resolveLog[s]))
    /\ NoDup(resolveLog[s])

C4_Witness ==
  /\ Len(resolveLog["T1"]) >= 2
  /\ resolveLog["T1"] = enqueueLog["T1"]

\* C5: requests of a session run in arrival order: when a request holds the
\* lock (it is checking, running or draining) or has finished, every request
\* of the session whose handler was entered earlier has finished.
C5_ArrivalOrder ==
  \A t1, t2 \in Tasks :
    (SameSession(t1, t2) /\ Before(t1, t2) /\ pc[t2] \in Holding \cup {"done"})
      => pc[t1] = "done"

C5_Witness ==
  \E t2, t3 \in Tasks :
    /\ SameSession(t2, t3) /\ Before(t2, t3)
    /\ waited[t2] /\ pc[t2] \in InRun
    /\ pc[t3] = "waiting"

\* C6: the registry holds at most one handle per session id, a handle is
\* registered under the id it was started for and under no other, isRunning
\* is true exactly for the ids with a handle; when start finds a handle it
\* has sent it kill before the new handle is registered, and the handle
\* registered by a start call is the one just passed (last writer wins).
C6_RegistryWellFormed ==
  \A s \in Sessions :
    /\ isRunning(running, s) <=> (\E p \in Procs : MapGet(running, s, None) = p)
    /\ isRunning(running, s) =>
         /\ procSess[running[s]] = s
         /\ procState[running[s]] # "unborn"
         /\ \A s2 \in Sessions \ {s} : MapGet(running, s2, None) # running[s]
    /\ getRunningCount(running) = Cardinality({x \in Sessions : isRunning(running, x)})

C6_KillAndReplace ==
  \A s \in Sessions :
    /\ (isRunning(running, s) /\ isRunning(running', s) /\ running'[s] # running[s])
         => procState'[running[s]] \in {"killed"} \cup Exited
    /\ (nextProc' # nextProc /\ procSess'[nextProc] = s)
         => (isRunning(running', s) /\ running'[s] = nextProc)

C6_Registry == [](C6_RegistryWellFormed) /\ [][C6_KillAndReplace]_vars

C6_Witness ==
  \E s \in Sessions, p \in Procs :
    /\ isRunning(running, s) /\ running[s] # p
    /\ procSess[p] = s /\ procState[p] = "killed"

\* C7: a handler that acquired the lock releases it exactly once on every
\* exit path (after the drain loop, after the enqueue branch, after a thrown
\* error), never before it ends, and the lock is free when no handler holds
\* it, so a later request can acquire it.
C7_LockReleased ==
  /\ \A t \in Tasks :
       /\ releases[t] <= 1
       /\ pc[t] = "done" => releases[t] = 1
       /\ pc[t] \in Holding => (releases[t] = 0 /\ t \in holder[sess[t]])
       /\ pc[t] \in {"idle", "waiting"} => releases[t] = 0
  /\ \A s \in Sessions :
       (\A t \in Tasks : sess[t] = s => pc[t] \in {"idle", "done"})
          => ~isLocked(getMutex(locks, s))

C7_Witness ==
  \E t1, t2 \in Tasks :
    /\ SameSession(t1, t2) /\ Before(t1, t2)
    /\ pc[t1] = "done" /\ exitKind[t1] = "threw"
    /\ pc[t2] \in InRun

\* C8: at most one task is between a completed acquire and its release; the
\* lock is granted in the order of the acquire calls; it never becomes free
\* while a waiter remains (release hands it over), and it is free only when no
\* task holds it and none waits.
C8_MutexState ==
  \A s \in Sessions :
    LET m == getMutex(locks, s) IN
    /\ Cardinality(holder[s]) <= 1
    /\ holder[s] # {} => isLocked(m)
    /\ ~isLocked(m) => (m.waitQueue = <<>> /\ holder[s] = {})
    /\ IsPrefix(grants[s], arrivals[s])
    /\ \A t \in Tasks : parked(m, t) <=> (pc[t] = "waiting" /\ sess[t] = s)

C8_HandOff ==
  \A s \in Sessions :
    (isLocked(getMutex(locks, s)) /\ getMutex(locks, s).waitQueue # <<>>)
      => (isLocked(getMutex(locks', s)) /\ holder'[s] # {})

C8_Mutex == [](C8_MutexState) /\ [][C8_HandOff]_vars

C8_Witness ==
  \E t2, t3 \in Tasks :
    /\ SameSession(t2, t3)
    /\ pc[t2] = "acquired" /\ waited[t2]
    /\ pc[t3] = "waiting"

\* C9: at the moment runClaude returns (success, failure after exit, caught
\* exception) the registry holds no entry for the session of the run.
C9_RemovedAtReturn ==
  [][\A t \in Tasks :
       (pc[t] # "returned" /\ pc'[t] = "returned") => ~isRunning(running', sess[t])]_vars

C9_Witness ==
  \E t \in Tasks :
    /\ pc[t] = "returned" /\ raised[t] = "stream"
    /\ procState[rProc[t]] = "alive"
    /\ ~isRunning(running, sess[t])

\* C10 (as claimed): whenever spawn, the stream or a handler raised during a
\* run, runClaude returns success=false with the exception's message.
ExceptionMessage(kind) ==
  IF kind = "spawn" THEN "spawn failed"
  ELSE IF kind = "stream" THEN "stream failed" ELSE "handler failed"

RunProcState(t) == IF rProc[t] = None THEN "unborn" ELSE procState[rProc[t]]

Returned(t) == pc[t] = "returned" /\ raised[t] \notin {"spawn", "stream"}

\* C12: when a Completion was dispatched during a run whose subprocess was
\* then terminated by a signal or exited with a non-zero code, the RunResult
\* is derived from the Completion: success is true iff its subtype is success,
\* and the error is the Completion's, not the exit status.
C12_CompletionWins ==
  \A t \in Tasks :
    (/\ Returned(t) /\ rResult[t] # NoMessage
     /\ (rExit[t] # 0 \/ RunProcState(t) = "terminated"))
      => /\ rOut[t].success <=> (rResult[t].subtype = "success")
         /\ rOut[t].error = IF rResult[t].is_error THEN rResult[t].result ELSE ""

C12_Witness ==
  /\ pc[1] = "returned" /\ nStops = 0
  /\ RunProcState(1) = "terminated" /\ rExit[1] # 0
  /\ rResult[1].subtype = "success" /\ rOut[1].success

\* C13: a run whose subprocess was sent the termination signal (by the
\* timeout or by stop(id)) and that saw no Completion returns success=false.
C13_StoppedRunFails ==
  \A t \in Tasks :
    (/\ pc[t] = "returned" /\ rResult[t] = NoMessage
     /\ RunProcState(t) \in {"killed", "terminated"})
      => (rOut[t].set /\ ~rOut[t].success)

C13_Witness ==
  /\ pc[1] = "returned" /\ raised[1] = "none"
  /\ lastStop.ret /\ lastStop.proc = rProc[1]
  /\ RunProcState(1) = "terminated" /\ rExit[1] = 0
  /\ rResult[1] = NoMessage /\ ~rOut[1].success

\* C14: after a non-zero exit code N with no Completion the RunResult has
\* success=false and its error is the captured stderr if that is not empty,
\* otherwise the text 'Process exited with code N'.
C14_ExitFailure ==
  \A t \in Tasks :
    (Returned(t) /\ rExit[t] # 0 /\ rResult[t] = NoMessage)
      => /\ ~rOut[t].success
         /\ rStderr[t] # "" => rOut[t].error = rStderr[t]
         /\ rStderr[t] = "" =>
              rOut[t].error = "Process exited with code " \o ToString(rExit[t])

C14_Witness ==
  \E t \in Tasks :
    /\ Returned(t) /\ rExit[t] = 2 /\ rResult[t] = NoMessage
    /\ rStderr[t] = "" /\ rOut[t].error = "Process exited with code 2"

\* C15: in every other case without an exception the RunResult has
\* success = (the Completion's subtype is success), costUsd and durationMs
\* copied from the Completion, and error = the Completion's result text
\* exactly when its is_error flag is set (absent otherwise).
C15_DerivedResult ==
  \A t \in Tasks :
    (Returned(t) /\ ~(rExit[t] # 0 /\ rResult[t] = NoMessage))
      => /\ rOut[t].success <=> (rResult[t].subtype = "success")
         /\ rOut[t].costUsd = rResult[t].total_cost_usd
         /\ rOut[t].durationMs = rResult[t].duration_ms
         /\ rOut[t].error = IF rResult[t].is_error THEN rResult[t].result ELSE ""
         /\ rOut[t].sessionId = rSessionId[t]

C15_Witness ==
  \E t \in Tasks :
    /\ Returned(t) /\ rExit[t] = 0
    /\ rResult[t].subtype = "success" /\ ~rResult[t].is_error
    /\ rOut[t].success /\ rOut[t].error = ""
    /\ rOut[t].costUsd = 3 /\ rOut[t].durationMs = 5

\* C16: stop(id) on an id with a registered process returns true, has sent
\* kill to that process and removed exactly that entry, so isRunning(id) is
\* false; a start(id, h) on an id with no entry registers h and changes the
\* state of no other process.
C16_StopStep ==
  (lastStop' # lastStop /\ isRunning(running, lastStop'.id))
    => /\ lastStop'.ret
       /\ lastStop'.proc = running[lastStop'.id]
       /\ procState'[lastStop'.proc] # "alive"
       /\ ~isRunning(running', lastStop'.id)
       /\ \A s \in Sessions \ {lastStop'.id} :
            MapGet(running', s, None) = MapGet(running, s, None)

C16_StartStep ==
  (nextProc' # nextProc /\ ~isRunning(running, procSess'[nextProc]))
    => /\ MapGet(running', procSess'[nextProc], None) = nextProc
       /\ \A p \in Procs \ {nextProc} : procState'[p] = procState[p]

C16_StopThenStart == [][C16_StopStep /\ C16_StartStep]_vars

C16_Witness ==
  /\ nApi = 3 /\ nextProc = 3
  /\ lastStop.seq = 1 /\ lastStop.ret /\ lastStop.proc = 1
  /\ MapGet(running, lastStop.id, None) = 2
  /\ procState[1] = "killed" /\ procState[2] = "alive"

\* C17: stop(id) for an id with no registered process returns false, sends
\* kill to nothing and leaves the registry, the queues, the locks and the
\* completion handles as they were.
C17_StopUnregistered ==
  [][(lastStop' # lastStop /\ ~isRunning(running, lastStop'.id))
       => /\ ~lastStop'.ret /\ lastStop'.proc = None
          /\ running' = running /\ procState' = procState
          /\ queues' = queues /\ locks' = locks /\ resolved' = resolved]_vars

C17_Witness ==
  /\ lastStop.seq = 1 /\ ~lastStop.ret
  /\ lastStop.pending # <<>>
  /\ isLocked(getMutex(locks, lastStop.id))

\* C18: a stop(id) call leaves every queue as it was and resolves no
\* completion handle; the requests pending at the call stay queued until they
\* are dequeued or cleared, and one of them is resolved only by the drain
\* loop that ran it or by clearQueue.
C18_StopStep ==
  lastStop' # lastStop
    => /\ queues' = queues /\ resolved' = resolved
       /\ cleared' = cleared /\ dequeueLog' = dequeueLog

C18_PendingKept ==
  \A r \in SeqRange(lastStop.pending) :
    /\ \/ r \in SeqRange(QueueContents(lastStop.id))
       \/ r \in SeqRange(dequeueLog[lastStop.id])
       \/ r \in cleared
    /\ r \in resolved =>
         (r \in cleared \/ r \in SeqRange(resolveLog[lastStop.id]))

C18_StopKeepsQueue == [](C18_PendingKept) /\ [][C18_StopStep]_vars

C18_Witness ==
  /\ lastStop.ret /\ lastStop.pending # <<>>
  /\ procState[lastStop.proc] = "terminated"
  /\ cleared = {}
  /\ SeqRange(lastStop.pending) \subseteq SeqRange(resolveLog[lastStop.id])

\* C19: clearQueue(id) leaves no request pending for id (queue length 0,
\* dequeue returns none), resolves the completion handle of each request it
\* removed, and changes no other queue, no lock and no registry entry; a
\* cleared request is never dequeued and never run.
C19_ClearEffect ==
  \A s \in Sessions :
    LET q2 == clearQueue(queues, s) IN
    /\ getQueueLength(q2, s) = 0
    /\ dequeueItem(q2, s) = NoEntry
    /\ dequeue(q2, s) = q2
    /\ clearQueueResolved(queues, s) = SeqRange(QueueContents(s))
    /\ \A s2 \in Sessions \ {s} : MapGet(q2, s2, <<>>) = MapGet(queues, s2, <<>>)

C19_ClearedNeverRun ==
  /\ cleared \subseteq resolved
  /\ \A s \in Sessions :
       cleared \cap (SeqRange(QueueContents(s)) \cup SeqRange(dequeueLog[s])
                     \cup SeqRange(drainLog[s])) = {}

C19_ClearStep ==
  cleared' # cleared
    => /\ locks' = locks /\ running' = running /\ procState' = procState
       /\ \E s \in Sessions :
            /\ queues' = clearQueue(queues, s)
            /\ getQueueLength(queues', s) = 0
            /\ cleared' \ cleared = SeqRange(QueueContents(s))
            /\ (cleared' \ cleared) \subseteq resolved'

C19_ClearQueue ==
  [](C19_ClearEffect /\ C19_ClearedNeverRun) /\ [][C19_ClearStep]_vars

C19_Witness ==
  \E t \in Tasks :
    /\ t \in cleared /\ t \in resolved
    /\ pc[t] = "done" /\ exitKind[t] = "queued"
    /\ getQueueLength(queues, "T2") >= 1

\* C20 (as claimed): a subprocess that was sent the termination signal by
\* stop(id) or by the timeout is eventually terminated, whether or not it
\* obeys the signal: the program escalates to a forced kill.
C20_SignalledIsTerminated ==
  \A p \in Procs : (procState[p] = "killed") ~> (procState[p] \in Exited)

\* ----------------------------------------------------------------------
\* C21  Sessions are independent.  A message waits for the lock only when
\*      the lock of its own thread is held, and is queued only when its own
\*      thread has a registered process, whatever the other thread's lock,
\*      waiters and run are; and a step taken for one thread (acquire,
\*      release, enqueue, dequeue, clearQueue, start, stop, remove) leaves
\*      the other thread's lock, queue and registry entry as they were.
SessionState(s) ==
  <<MapGet(locks, s, NewMutex), MapGet(queues, s, <<>>), MapGet(running, s, None)>>
C21_NoDelay ==
  \A t \in Tasks :
     /\ (pc[t] = "idle" /\ pc'[t] = "waiting")
          => MapGet(locks, sess'[t], NewMutex).locked
     /\ (pc[t] = "idle" /\ pc'[t] \notin {"idle", "waiting"})
          => ~MapGet(locks, sess'[t], NewMutex).locked
     /\ (pc[t] = "acquired" /\ pc'[t] = "replying") => sess[t] \in DOMAIN running
     /\ (pc[t] = "acquired" /\ pc'[t] = "thinking") => sess[t] \notin DOMAIN running
C21_Frame ==
  /\ \A t \in Tasks, b \in Sessions :
       (pc'[t] # pc[t] /\ b # sess'[t]) => SessionState(b)' = SessionState(b)
  /\ \A a, b \in Sessions :
       (a # b /\ SessionState(a)' # SessionState(a))
          => SessionState(b)' = SessionState(b)
C21_SessionsIndependent == [][C21_NoDelay /\ C21_Frame]_vars

\* a run is in progress in each thread at once, the second one started
\* while a message was waiting for the first thread's lock; a request is
\* pending and a stop has been made in the first thread
C21_Witness ==
  \E t1, t2, t3 \in Tasks :
     /\ sess[t1] = "T1" /\ sess[t2] = "T2" /\ sess[t3] = "T1"
     /\ pc[t1] = "streaming" /\ pc[t2] = "streaming" /\ pc[t3] = "waiting"
     /\ t3 < t2
     /\ procState[rProc[t2]] = "alive"
     /\ getQueueLength(queues, "T1") > 0
     /\ lastStop.id = "T1" /\ lastStop.ret

\* ----------------------------------------------------------------------
\* the text a subprocess wrote, and what one feed call of the whole text
\* followed by flush makes of it
Written == decode(stdout).text
OneFeed(text) ==
  LET hs == wrappedHandlers(handlers)
      f == feed(parserKind, hs, <<>>, 0, text)
      g == flush(parserKind, hs, f.buffer, f.lineNo)
  IN [emitted |-> f.emitted \o g.emitted, warned |-> f.warned \o g.warned]
Flushed == phase \in {"exiting", "returned"}

\* C22  Chunk-boundary invariance: however the text was cut into chunks,
\*      once the chunks are fed and the parser is flushed the handler
\*      invocations (and the logged lines) are those of one feed call of
\*      the whole text followed by flush.
C22_ChunkInvariance ==
  Flushed => /\ emitted = OneFeed(Written).emitted
             /\ warned = OneFeed(Written).warned

\* a text of two documents that produced events was fed in chunks, one of
\* which ended inside a document
C22_Witness ==
  /\ Flushed /\ parserCalls.cut
  /\ Len(split(Written)) >= 2
  /\ \A n \in 1..Len(split(Written)) : JSONparse(split(Written)[n]).ok
  /\ Len(emitted) >= 3

\* ----------------------------------------------------------------------
\* the lines of the text written, and a sequence of handler invocations
\* without the line numbers
WrittenLines == split(Written)
isJSON(line) == JSONparse(line).ok
Strip(es) == [n \in 1..Len(es) |-> [handler |-> es[n].handler, msg |-> es[n].msg]]
OfLine(es, n) == LET at(e) == e.line = n IN SelectSeq(es, at)
WarnedLines == {warned[n] : n \in 1..Len(warned)}

\* C23  A line that is not valid JSON invokes no handler (onError included)
\*      and is not logged, and the handler invocations of the whole stream
\*      are those of the stream without its invalid lines.
C23_InvalidSkipped ==
  Flushed =>
    /\ \A n \in 1..Len(WrittenLines) :
          ~isJSON(WrittenLines[n]) => OfLine(emitted, n) = <<>> /\ n \notin WarnedLines
    /\ Strip(emitted) = Strip(OneFeed(join(SelectSeq(WrittenLines, isJSON))).emitted)

\* an invalid line came before a document that invoked a handler, in a run
\* whose caller registered onError
C23_Witness ==
  /\ Flushed /\ "onError" \in handlers
  /\ \E n, k \in 1..Len(WrittenLines) :
        /\ n < k /\ ~isJSON(WrittenLines[n]) /\ trim(WrittenLines[n]) # <<>>
        /\ OfLine(emitted, k) # <<>>

\* ----------------------------------------------------------------------
\* the document of line n of the text written, if it is an assistant message
isAssistant(n) ==
  /\ n \in 1..Len(WrittenLines) /\ isJSON(WrittenLines[n])
  /\ JSONparse(WrittenLines[n]).value.type = "assistant"
  /\ "message" \in DOMAIN JSONparse(WrittenLines[n]).value
ContentOf(n) == JSONparse(WrittenLines[n]).value.message.content
ToolUseItems(c) == {k \in 1..Len(c) : c[k].type = "tool_use"}
NonBlankText(c) ==
  \E k \in 1..Len(c) :
     c[k].type = "text" /\ \E h \in 1..Len(c[k].text) : c[k].text[h] # SP

\* C24  With onToolUse and onAssistant registered, an assistant message
\*      invokes onToolUse once per tool_use item, in the order of the content
\*      array, and after them onAssistant once if and only if some text item
\*      has a character that is not white space; nothing else.
C24_AssistantEvents ==
  (Flushed /\ handlers = AllHandlers) =>
    \A n \in 1..Len(WrittenLines) :
       isAssistant(n) =>
         LET c == ContentOf(n)
             es == OfLine(emitted, n)
             uses == ToolUseItems(c)
         IN /\ Len(es) = Cardinality(uses) + (IF NonBlankText(c) THEN 1 ELSE 0)
            /\ \A k \in uses :
                  es[Cardinality({h \in uses : h <= k})] =
                    Event("onToolUse", n, c[k])
            /\ NonBlankText(c) => es[Len(es)].handler = "onAssistant"

\* the stream held a message with content [tool_use, tool_use, text], which
\* invoked three handlers, and a message with blank text only, which
\* invoked none
C24_Witness ==
  /\ Flushed /\ handlers = AllHandlers
  /\ \E n, k \in 1..Len(WrittenLines) :
        /\ isAssistant(n) /\ isAssistant(k)
        /\ Len(ContentOf(n)) = 3 /\ Cardinality(ToolUseItems(ContentOf(n))) = 2
        /\ Len(OfLine(emitted, n)) = 3
        /\ ToolUseItems(ContentOf(k)) = {} /\ ~NonBlankText(ContentOf(k))
        /\ ContentOf(k) # <<>> /\ OfLine(emitted, k) = <<>>

\* ----------------------------------------------------------------------
\* line n holds valid JSON that matches none of the message schemas
Mismatch(n) ==
  /\ n \in 1..Len(WrittenLines) /\ isJSON(WrittenLines[n])
  /\ ~parseClaudeMessage(JSONparse(WrittenLines[n]).value)
Reported(n) ==
  \/ n \in WarnedLines
  \/ \E k \in 1..Len(emitted) : emitted[k].line = n /\ emitted[k].handler = "onError"
AgentEvents(n) ==
  LET agent(e) == e.line = n /\ e.handler # "onError" IN SelectSeq(emitted, agent)

\* C25  A line of valid JSON that matches no recognized message shape is
\*      reported (logged as an invalid shape, or passed to onError when the
\*      caller registered it), invokes no other handler, and the lines after
\*      it are processed as if it had not been there.
C25_MismatchReported ==
  (Flushed /\ "onError" \in handlers) =>
    /\ \A n \in 1..Len(WrittenLines) :
          Mismatch(n) => Reported(n) /\ AgentEvents(n) = <<>>
    /\ LET ok(line) == isJSON(line) /\ parseClaudeMessage(JSONparse(line).value)
           agent(e) == e.handler # "onError"
       IN Strip(SelectSeq(emitted, agent)) =
            Strip(OneFeed(join(SelectSeq(WrittenLines, ok))).emitted)

\* ----------------------------------------------------------------------
\* the handlers invoked for line n, in order
HandlersOf(n) ==
  LET es == OfLine(emitted, n) IN [k \in 1..Len(es) |-> es[k].handler]
TypeOf(n) == JSONparse(WrittenLines[n]).value.type

\* C26  With the caller's handlers registered, a flat message of type
\*      tool_use invokes onToolUse and one of type tool_result invokes
\*      onToolResult, as the content-array forms do.
C26_LegacyForms ==
  (Flushed /\ handlers = AllHandlers) =>
    \A n \in 1..Len(WrittenLines) :
       isJSON(WrittenLines[n]) =>
         /\ TypeOf(n) = "tool_use" => HandlersOf(n) = <<"onToolUse">>
         /\ TypeOf(n) = "tool_result" => HandlersOf(n) = <<"onToolResult">>

\* ----------------------------------------------------------------------
\* C27  At every moment of a run the handler invocations made so far are in
\*      the order of their source lines, each for a line of the stream that
\*      holds a document, and no invocation is made twice (a line is
\*      dispatched once); the calls passed on to the caller keep that order.
C27_LineOrder ==
  /\ \A n, k \in 1..Len(emitted) : n < k => emitted[n].line <= emitted[k].line
  /\ \A n \in 1..Len(emitted) :
        /\ emitted[n].line \in 1..Len(WrittenLines)
        /\ isJSON(WrittenLines[emitted[n].line])
  /\ NoDup(emitted)
  /\ \A n, k \in 1..Len(forwarded) : n < k => forwarded[n].line < forwarded[k].line

\* two lines, fed in chunks one of which ended inside a line, have each
\* invoked a handler
C27_Witness ==
  /\ Flushed /\ parserCalls.cut
  /\ \E n, k \in 1..Len(emitted) : emitted[n].line = 1 /\ emitted[k].line = 2
  /\ Len(forwarded) = 2

\* ----------------------------------------------------------------------
\* C28  A run whose stream ended without an exception has called flush
\*      exactly once, as the last parser call, before it awaits the exit
\*      status; no feed follows a flush; and the parser's buffer, output and
\*      call record change only in steps taken while the run is streaming.
C28_FlushState ==
  /\ parserCalls.flush <= 1 /\ ~parserCalls.late
  /\ phase = "idle" => parserCalls.last = "none"
  /\ phase = "streaming" => parserCalls.flush = 0
  /\ phase \in {"exiting", "returned"} =>
        parserCalls.flush = 1 /\ parserCalls.last = "flush"
C28_InputStep ==
  <<buffer, emitted, warned, lineNo, parserCalls>>'
      # <<buffer, emitted, warned, lineNo, parserCalls>>
    => phase = "streaming"
C28_FlushOnce == [](C28_FlushState) /\ [][C28_InputStep]_vars

\* a run fed in several chunks returned after its flush dispatched the last
\* line, which had no newline after it
C28_Witness ==
  /\ phase = "returned" /\ parserCalls.cut
  /\ stdout # <<>> /\ stdout[Len(stdout)] # NL
  /\ \E n \in 1..Len(emitted) : emitted[n].line = Len(WrittenLines)

\* ----------------------------------------------------------------------
\* C29  flush processes the buffered final line exactly once: when the text
\*      written does not end in a newline, the handler invocations (and
\*      logged lines) after the flush are those of feeding the text with a
\*      newline appended and not flushing, and flushing the parser again
\*      invokes no handler and logs nothing.
NoFinalNewline == Written # <<>> /\ Written[Len(Written)] # NL
FedWithNewline ==
  feed(parserKind, wrappedHandlers(handlers), <<>>, 0, Written \o <<NL>>)
SecondFlush == flush(parserKind, wrappedHandlers(handlers), buffer, lineNo)
C29_FlushFinalLine ==
  Flushed /\ NoFinalNewline =>
    /\ emitted = FedWithNewline.emitted
    /\ warned = FedWithNewline.warned
    /\ FedWithNewline.buffer = <<>>
    /\ SecondFlush.emitted = <<>> /\ SecondFlush.warned = <<>>

\* two documents were written, the second without a newline after it, and
\* the flush dispatched the second after the feeds dispatched the first
C29_Witness ==
  /\ Flushed /\ NoFinalNewline
  /\ Len(WrittenLines) = 2
  /\ \A n \in 1..2 : JSONparse(WrittenLines[n]).ok
  /\ \E n, k \in 1..Len(emitted) : emitted[n].line = 1 /\ emitted[k].line = 2
  /\ buffer = <<>>

\* ----------------------------------------------------------------------
\* C30  When the run has returned, from the try block or from the catch
\*      block, RunResult.sessionId is the session id of the last Init the
\*      parser dispatched, and absent if it dispatched none, whatever
\*      handlers the caller registered; and the calls made to the caller's
\*      onSystemInit and onResult are exactly the parser's Init and
\*      Completion dispatches, each once and in order.
Dispatched(h) == SelectSeq(emitted, LAMBDA e : e.handler = h)
Forwarded(h) == SelectSeq(forwarded, LAMBDA e : e.handler = h)
LastInitId ==
  IF Dispatched("onSystemInit") = <<>> THEN None
  ELSE Dispatched("onSystemInit")[Len(Dispatched("onSystemInit"))].msg.session_id
C30_SessionIdCaptured ==
  /\ phase \in {"returned", "caught"} =>
        runResult.set /\ runResult.sessionId = LastInitId
  /\ \A h \in {"onSystemInit", "onResult"} :
        Forwarded(h) = IF h \in handlers THEN Dispatched(h) ELSE <<>>
  /\ \A n \in 1..Len(forwarded) :
        forwarded[n].handler \in {"onSystemInit", "onResult"}

\* a run with caller handlers dispatched two Inits with different session
\* ids in separate feeds and returned the second id
C30_Witness ==
  /\ phase = "returned" /\ handlers # {}
  /\ Len(Dispatched("onSystemInit")) = 2
  /\ Dispatched("onSystemInit")[1].msg.session_id # LastInitId
  /\ runResult.sessionId = LastInitId
  /\ Len(forwarded) = 2 /\ parserCalls.cut

\* ----------------------------------------------------------------------
\* the options of an argument list, read left to right: an option that
\* takes a value is followed by its value, which is not itself an option
ValueOptions == {"-p", "--output-format", "--resume", "--model"}
RECURSIVE OptionPositions(_, _)
OptionPositions(a, n) ==
  IF n > Len(a) THEN {}
  ELSE {n} \cup OptionPositions(a, IF a[n] \in ValueOptions THEN n + 2 ELSE n + 1)
Count(a, f) == Cardinality({n \in OptionPositions(a, 1) : a[n] = f})
Given(a, f, v) ==
  /\ Count(a, f) = 1
  /\ \E n \in OptionPositions(a, 1) : a[n] = f /\ n < Len(a) /\ a[n + 1] = v
Built == args # <<>>

\* C31  The argument list has the prompt flag with the prompt and the
\*      output-format flag with stream-json; the continue flag alone when
\*      continue is set (also when a resume token is given), the resume flag
\*      with the token when only the token is given, neither otherwise; and
\*      the model flag with the model exactly when a model is given.
C31_ArgsBuilt ==
  Built =>
    /\ Given(args, "-p", options.prompt)
    /\ Given(args, "--output-format", "stream-json")
    /\ Count(args, "--continue") + Count(args, "--resume") <= 1
    /\ Count(args, "--continue") = IF options.continue THEN 1 ELSE 0
    /\ IF ~options.continue /\ Truthy(options.resume)
       THEN Given(args, "--resume", options.resume)
       ELSE Count(args, "--resume") = 0
    /\ IF Truthy(options.model)
       THEN Given(args, "--model", options.model)
       ELSE Count(args, "--model") = 0

\* both continue and a resume token were given, with a model, and the
\* prompt is the text of a flag
C31_Witness ==
  /\ Built /\ options.continue /\ Truthy(options.resume) /\ Truthy(options.model)
  /\ options.prompt = "--resume"
  /\ Len(args) = 9

\* ----------------------------------------------------------------------
\* C32  A resolved completion handle belongs to a request that clearQueue
\*      dropped or that the drain loop dequeued and ran to its return: it is
\*      not in a queue and no run of it is in progress; and a step that
\*      resolves a handle without clearing it is taken by the drain loop
\*      after executeClaudeTask returned for that request.
Requests == Tasks \cup ExtReqs
Pending(r) == \E s \in Sessions : r \in SeqRange(QueueContents(s))
Executing(r) == \E t \in Tasks : curQ[t] # NoEntry /\ curQ[t].resolve = r
C32_ResolvedState ==
  \A r \in resolved :
    /\ ~Pending(r) /\ ~Executing(r)
    /\ r \in cleared \/ \E s \in Sessions : r \in SeqRange(drainLog[s])
C32_ResolveStep ==
  \A r \in Requests :
    r \in resolved' /\ r \notin resolved /\ r \notin cleared' =>
      \E t \in Tasks : pc[t] = "drain" /\ curQ[t] # NoEntry /\ curQ[t].resolve = r
C32_ResolvedAfterRun == [](C32_ResolvedState) /\ [][C32_ResolveStep]_vars

\* one request was run and then resolved by the drain loop, which is now
\* running a later request whose handle is not resolved
C32_Witness ==
  /\ \E r \in resolved \ cleared : r \in SeqRange(drainLog["T1"])
  /\ \E r \in Requests : Executing(r) /\ r \notin resolved

\* ----------------------------------------------------------------------
\* C33 (as claimed)  The run of a request that waited on the lock while an
\*      earlier run of its session was in progress is started with the
\*      session state that run left in the store (resume = the id of its
\*      Init, continue = false), not with the state read before the acquire.
LeftByEarlierRun(t) ==
  /\ prevInit[t] # None
  /\ store[sess[t]] = [claudeSessionId |-> prevInit[t], useContinue |-> FALSE]
C33_WaiterRunsFresh ==
  \A t \in Tasks :
    (/\ waited[t] /\ curQ[t] = NoEntry
     /\ pc[t] \in InRun /\ rSessionId[t] = None
     /\ LeftByEarlierRun(t))
      => /\ cur[t].resume = store[sess[t]].claudeSessionId
         /\ cur[t].continue = store[sess[t]].useContinue

\* ----------------------------------------------------------------------
\* C34 (as claimed)  When runClaude has returned, the subprocess it spawned
\*      has exited or has been sent the kill signal: no return leaves a live
\*      subprocess that the registry no longer holds.
Orphan(p) == procState[p] = "alive" /\ p \notin Range(running)
C34_NoLiveSubprocessAtReturn ==
  \A t \in Tasks :
    pc[t] = "returned" /\ rProc[t] # None =>
      /\ procState[rProc[t]] \in Exited \cup {"killed"}
      /\ ~Orphan(rProc[t])

\* ----------------------------------------------------------------------
\* C35  A handle in the registry is that of the run in progress for its
\*      session.  The remove(id) of a finishing run takes out no handle but
\*      that run's own and signals nothing; a stop(id) made by a caller
\*      other than a timer signals and takes out only the handle of the run
\*      in progress when it is made.
OwnerOf(p) == {t \in Tasks : pc[t] \in InRun /\ rProc[t] = p /\ sess[t] = procSess[p]}
C35_HandleOfCurrentRun ==
  \A s \in Sessions :
    isRunning(running, s) =>
      /\ OwnerOf(running[s]) # {}
      /\ RunsInProgress(s) = OwnerOf(running[s])
Finishing(t) ==
  /\ pc[t] \in {"thinking", "streaming", "exiting"}
  /\ pc'[t] \in {"stderr", "returned"}
C35_RemoveStep ==
  \A t \in Tasks :
    Finishing(t) =>
      /\ procState' = procState
      /\ \A s \in Sessions :
           isRunning(running, s) /\ MapGet(running', s, None) # running[s]
             => s = sess[t] /\ running[s] = rProc[t]
C35_StopStep ==
  lastStop' # lastStop =>
    /\ lastStop'.proc # None => OwnerOf(lastStop'.proc) # {}
    /\ \A p \in Procs : procState'[p] # procState[p] => p = lastStop'.proc
    /\ \A s \in Sessions :
         isRunning(running, s) /\ MapGet(running', s, None) # running[s]
           => running[s] = lastStop'.proc
C35_OwnHandleOnly ==
  [](C35_HandleOfCurrentRun) /\ [][C35_RemoveStep /\ C35_StopStep]_vars

\* an earlier run of the session was stopped by /stop and has finished; a
\* later run is in progress and the registry holds its live handle
C35_Witness ==
  \E t1, t2 \in Tasks :
    /\ pc[t1] = "done" /\ pc[t2] \in InRun /\ sess[t1] = sess[t2]
    /\ lastStop.proc # None /\ lastStop.proc # rProc[t2]
    /\ procState[lastStop.proc] = "terminated"
    /\ MapGet(running, sess[t2], None) = rProc[t2]
    /\ procState[rProc[t2]] = "alive"

\* ----------------------------------------------------------------------
\* C36 (as claimed)  The timeout timer of a run stops nothing but that run's
\*      own subprocess: when it fires, no other subprocess is signalled and
\*      no other subprocess's registry entry is deleted.
TimerFired(p) == p \in timers /\ p \notin timers'
C36_TimerStep ==
  \A p \in Procs :
    TimerFired(p) =>
      /\ \A q \in Procs \ {p} : procState'[q] = procState[q]
      /\ \A s \in Sessions :
           isRunning(running, s) /\ ~isRunning(running', s) => running[s] = p
C36_TimerStopsOwnRun == [][C36_TimerStep]_vars

DequeuedByDrain(r) == \E s \in Sessions : r \in SeqRange(drainLog[s])
C39_OneHandlerAtATime ==
  /\ Cardinality(unfinished) <= 1
  /\ phase \in {"returned", "caught"} => unfinished = {}

\* ----------------------------------------------------------------------
\* C40 (as claimed)  Every RunResult with success=false carries a non-empty
\*      error text, whatever the exit code, the stderr content and the
\*      Completion observed.
C40_FailureHasError ==
  \A t \in Tasks :
    pc[t] = "returned" /\ rOut[t].set /\ ~rOut[t].success => rOut[t].error # ""

====
